---------------------------- MODULE Spec2Model ----------------------------
(***************************************************************************)
(* The spatial-graph versioning engine of tabularxr/localstag: the stag    *)
(* service's processEvent / processAnchorEvent over the BoltDB store.       *)
(*                                                                         *)
(* Strings that take part in bucket keys are sequences of byte values, so  *)
(* that key concatenation, prefix scans and the cursor's byte order are    *)
(* computed as the store computes them.  The MD5 digest is modelled as an  *)
(* ideal hash: the digest stands for the exact sequence of items fed to    *)
(* the hasher, so two events have equal hashes iff they feed equal bytes.  *)
(* Floating point payload values are drawn from small integers.            *)
(***************************************************************************)
EXTENDS Integers, Sequences, FiniteSets, TLC

(* ------------------------------ bounds -------------------------------- *)

\* number of events the engine processes in one behaviour
MaxEvents == 4
\* number of one-second steps of the wall clock in one behaviour
MaxTicks == 1
\* wall clock (unix seconds) at the start of a behaviour
StartUnix == 1700000000
\* number of events processed in a behaviour in which store writes may fail
MaxEventsFailing == 3
\* number of store writes that return an error in one behaviour
MaxFailures == 1

(* ------------------------- program constants -------------------------- *)

\* vertexCount > 1000, faceCount > 1000, dataLen > 1000: sample
SampleThreshold == 1000
\* i += 30: every 10th x,y,z triple
TripleStride == 30
\* i += 10: every 10th face index / depth value
ScalarStride == 10

(* ------------------------------ strings ------------------------------- *)

\* the elements of a sequence, as a set
Items(seq) == {seq[i] : i \in 1..Len(seq)}

\* an optional (pointer) field: <<>> is nil, <<x>> points to x
Nil == <<>>
Some(x) == <<x>>

StrColon == <<58>>
StrUnderscore == <<95>>
StrV == <<118>>
StrDefault == <<100, 101, 102, 97, 117, 108, 116>>
StrMesh == <<109, 101, 115, 104>>
StrPose == <<112, 111, 115, 101>>
StrCamera == <<99, 97, 109, 101, 114, 97>>
StrDepth == <<100, 101, 112, 116, 104>>
StrPointCloud == <<112, 111, 105, 110, 116, 67, 108, 111, 117, 100>>
StrPointcloudLower == <<112, 111, 105, 110, 116, 99, 108, 111, 117, 100>>
StrLighting == <<108, 105, 103, 104, 116, 105, 110, 103>>
StrGeneric == <<103, 101, 110, 101, 114, 105, 99>>
\* an event type none of the six cases of the switch matches
StrOther == <<120>>

\* fmt.Sprintf("%d", n) for n >= 0
RECURSIVE FormatInt(_)
FormatInt(n) ==
    IF n < 10 THEN <<48 + n>>
    ELSE Append(FormatInt(n \div 10), 48 + (n % 10))

\* bytes.Compare(a, b) < 0: the order of a bucket's cursor
RECURSIVE BytesLess(_, _)
BytesLess(a, b) ==
    IF b = <<>> THEN FALSE
    ELSE IF a = <<>> THEN TRUE
    ELSE IF Head(a) # Head(b) THEN Head(a) < Head(b)
    ELSE BytesLess(Tail(a), Tail(b))

\* len(k) > len(prefix) && string(k[:len(prefix)]) == string(prefix)
HasPrefix(k, prefix) ==
    /\ Len(k) > Len(prefix)
    /\ SubSeq(k, 1, Len(prefix)) = prefix

\* the keys of a set in cursor order
RECURSIVE SortKeys(_)
SortKeys(ks) ==
    IF ks = {} THEN <<>>
    ELSE LET k == CHOOSE x \in ks : \A y \in ks \ {x} : BytesLess(x, y)
         IN <<k>> \o SortKeys(ks \ {k})


(* ------------------------------ hasher -------------------------------- *)

\* h.hasher.Write([]byte(s)): the bytes of s, with no length and no separator
WriteBytes(s) == [i \in 1..Len(s) |-> <<"b", s[i]>>]
\* binary.Write(h.hasher, binary.LittleEndian, x): a fixed-width item
WriteU64(n) == << <<"u64", n>> >>
WriteI32(n) == << <<"i32", n>> >>
WriteF64s(xs) == [i \in 1..Len(xs) |-> <<"f64", xs[i]>>]
WriteU32s(xs) == [i \in 1..Len(xs) |-> <<"u32", xs[i]>>]

\* for i := 0; i < len(xs); i += 30 { if i+2 < len(xs) { xs[i], xs[i+1], xs[i+2] } }
SampleTriples(xs) ==
    LET n == Cardinality({j \in 0..(Len(xs) \div TripleStride) :
                              j * TripleStride + 2 < Len(xs)})
    IN [p \in 1..(3 * n) |->
          xs[TripleStride * ((p - 1) \div 3) + ((p - 1) % 3) + 1]]

\* for i := 0; i < len(xs); i += 10 { xs[i] }
SampleScalars(xs) ==
    LET n == Cardinality({j \in 0..(Len(xs) \div ScalarStride) :
                              j * ScalarStride < Len(xs)})
    IN [p \in 1..n |-> xs[ScalarStride * (p - 1) + 1]]

hashTransform(transform) ==
    WriteF64s(transform.Translation) \o WriteF64s(transform.Rotation)
        \o WriteF64s(transform.Scale)

hashMeshData(mesh) ==
    WriteBytes(mesh.AnchorID)
        \o WriteI32(Len(mesh.Vertices))
        \o WriteI32(Len(mesh.Faces))
        \o (IF Len(mesh.Vertices) \div 3 > SampleThreshold
            THEN WriteF64s(SampleTriples(mesh.Vertices))
            ELSE WriteF64s(mesh.Vertices))
        \o (IF Len(mesh.Faces) > SampleThreshold
            THEN WriteU32s(SampleScalars(mesh.Faces))
            ELSE WriteU32s(mesh.Faces))
        \o WriteBytes(mesh.Classification)
        \o WriteF64s(<<mesh.Confidence>>)

hashPoseData(pose) ==
    (IF pose.Transform # Nil THEN hashTransform(pose.Transform[1]) ELSE <<>>)
        \o WriteF64s(pose.Velocity)
        \o WriteF64s(pose.Acceleration)
        \o WriteF64s(<<pose.Confidence>>)

\* a camera hash that also writes the image bytes
hashCameraDataAndImage(camera) ==
    WriteI32(camera.Width)
        \o WriteI32(camera.Height)
        \o WriteBytes(camera.Format)
        \o WriteI32(Len(camera.ImageData))
        \o WriteBytes(camera.ImageData)
        \o WriteF64s(camera.Intrinsics)
        \o (IF camera.Transform # Nil THEN hashTransform(camera.Transform[1]) ELSE <<>>)

hashCameraData(camera) ==
    WriteI32(camera.Width)
        \o WriteI32(camera.Height)
        \o WriteBytes(camera.Format)
        \o WriteI32(Len(camera.ImageData))
        \o WriteF64s(camera.Intrinsics)
        \o (IF camera.Transform # Nil THEN hashTransform(camera.Transform[1]) ELSE <<>>)

hashDepthData(depth) ==
    WriteI32(depth.Width)
        \o WriteI32(depth.Height)
        \o WriteI32(Len(depth.Data))
        \o (IF Len(depth.Data) > SampleThreshold
            THEN WriteF64s(SampleScalars(depth.Data))
            ELSE WriteF64s(depth.Data))

hashPointCloudData(pc) ==
    WriteI32(Len(pc.Points))
        \o (IF Len(pc.Points) \div 3 > SampleThreshold
            THEN WriteF64s(SampleTriples(pc.Points))
            ELSE WriteF64s(pc.Points))

hashLightingData(lighting) ==
    WriteF64s(<<lighting.AmbientIntensity>>)
        \o WriteF64s(lighting.DirectionalLight)
        \o WriteF64s(lighting.SphericalHarmonics)
        \o WriteF64s(<<lighting.ColorTemperature>>)

\* the hex digest of the feed; the digest is the feed itself (ideal hash)
CalculateEventHash(event) ==
    WriteBytes(event.EventType)
        \o WriteU64(event.FrameNumber)
        \o (IF event.EventType = StrMesh /\ event.MeshData # Nil
              THEN hashMeshData(event.MeshData[1])
            ELSE IF event.EventType = StrPose /\ event.PoseData # Nil
              THEN hashPoseData(event.PoseData[1])
            ELSE IF event.EventType = StrCamera /\ event.CameraData # Nil
              THEN hashCameraData(event.CameraData[1])
            ELSE IF event.EventType = StrDepth /\ event.DepthData # Nil
              THEN hashDepthData(event.DepthData[1])
            ELSE IF event.EventType = StrPointCloud /\ event.PointCloudData # Nil
              THEN hashPointCloudData(event.PointCloudData[1])
            ELSE IF event.EventType = StrLighting /\ event.LightingData # Nil
              THEN hashLightingData(event.LightingData[1])
            ELSE <<>>)
        \o (IF event.Transform # Nil THEN hashTransform(event.Transform[1]) ELSE <<>>)

Min2(a, b) == IF a < b THEN a ELSE b
Max2(a, b) == IF a > b THEN a ELSE b

\* the x (k = 1), y (k = 2) or z (k = 3) coordinates the bounding-box loop reads
Coords(vs, k) ==
    {vs[i + k] : i \in {j \in 0..(Len(vs) - 1) : j % 3 = 0 /\ j + 2 < Len(vs)}}

\* max - min of one axis, starting from vertices[0..2] when len >= 3, else 0
Extent(vs, k) ==
    IF Len(vs) >= 3
    THEN LET cs == Coords(vs, k) \cup {vs[k]}
             lo == CHOOSE m \in cs : \A c \in cs : Min2(m, c) = m
             hi == CHOOSE m \in cs : \A c \in cs : Max2(m, c) = m
         IN hi - lo
    ELSE 0

\* "empty", or fmt.Sprintf("%s_%d_%d_%.3f", anchorID, vertexCount, faceCount, volume).
\* The three numeric fields contain no '_', so the string determines the four
\* values and is modelled by them; volumes are integral here, which %.3f prints
\* exactly.
CalculateGeometrySignature(mesh) ==
    IF Len(mesh.Vertices) = 0 THEN <<"empty", <<>>, 0, 0, 0>>
    ELSE <<"sig", mesh.AnchorID, Len(mesh.Vertices) \div 3, Len(mesh.Faces),
           Extent(mesh.Vertices, 1) * Extent(mesh.Vertices, 2)
               * Extent(mesh.Vertices, 3)>>


(* ------------------------------- store -------------------------------- *)

VARIABLES
    stagsBucket,     \* bucket "stags":    stag id                  -> stag record
    anchorsBucket,   \* bucket "anchors":  stagID:anchorID          -> anchor record
    versionsBucket,  \* bucket "versions": stagID:anchorID:version  -> version record
    now,             \* time.Now().Unix()
    nEvents,         \* events processed so far
    nFailures,       \* store writes that returned an error so far
    lastEv,          \* history: the event processed last, <<>> before the first
    last,            \* history: what processing it did
    producers        \* history: per stag, the events whose version was written

\* the engine applying one event transaction by transaction, and a reader
VARIABLES
    inflight,        \* the event the worker is applying, with the store it found
                     \* and the stores its writes lead through
    reader,          \* a GetAnchor call between its two read transactions
    seen             \* history: what a completed GetAnchor call returned

readVars == <<inflight, reader, seen>>

\* the batch processor between HandleIngest and processBatch
VARIABLES
    queue,           \* bp.queue: the events in the channel, oldest first
    closed,          \* close(bp.queue) has run
    batch,           \* bp.batch: the worker's buffer
    cancelled,       \* bp.ctx is done: shutdown was signalled
    worker,          \* where run() is: "select", "flush", "final", "exited"
    toProcess,       \* the events processBatch has still to loop over
    counts,          \* processBatch's processed and errors
    stop,            \* where Stop() is: "idle", "wait", "returned"
    request,         \* per HTTP client: the batch HandleIngest decoded
    handler,         \* per HTTP client: where HandleIngest is
    enqueued,        \* history: the events sent into the channel, in order
    signalledAt,     \* history: Len(enqueued) when shutdown was signalled
    passed,          \* history: the events handed to processBatch, in order
    applied,         \* history: the events processEvent ran on, with the result
    dropped,         \* history: the events Add dropped
    finalFlush       \* history: the events the final flush handed over

batchVars == <<queue, closed, batch, cancelled, worker, toProcess, counts,
               stop, request, handler, enqueued, signalledAt, passed, applied,
               dropped, finalFlush>>

\* the callers of the store besides the engine: the query handlers, the
\* delete operations and the clean command
VARIABLES
    systemStats,     \* bucket "stats", key "system": the SystemStats counters
    owner,           \* history: per version key, the (stag, anchor) it was added for
    call,            \* history: the operation called last, with what it returned
    nCalls           \* history: operations called so far

apiVars == <<systemStats, owner, call, nCalls>>

\* the hasher pool
VARIABLES
    hashers,         \* per FastHasher allocated: what its md5 state has been fed
    pooled,          \* the hashers in hasherPool
    holding,         \* per goroutine: the hasher it got and has not put back
    sums             \* history: the (event, hex digest) pairs computed

poolVars == <<hashers, pooled, holding, sums>>

vars == <<stagsBucket, anchorsBucket, versionsBucket, now, nEvents, nFailures,
          lastEv, last, producers, readVars, batchVars, apiVars, poolVars>>

\* bucket.Put(key, data)
Put(bucket, key, data) ==
    [k \in (DOMAIN bucket) \cup {key} |-> IF k = key THEN data ELSE bucket[k]]

AnchorKey(stagID, anchorID) == stagID \o StrColon \o anchorID
VersionPrefix(stagID, anchorID) == stagID \o StrColon \o anchorID \o StrColon
VersionKey(stagID, anchorID, versionID) ==
    stagID \o StrColon \o anchorID \o StrColon \o versionID

ZeroStats ==
    [AnchorCount |-> 0, VersionCount |-> 0, EventCount |-> 0,
     SessionCount |-> 0, ClientCount |-> 0, DeviceCount |-> 0]

\* Each store operation is one bbolt transaction of its own.  An operation
\* yields [ok, bucket]: ok = FALSE is a returned error, with the bucket as it
\* was.

CreateStag(stags, stag) ==
    IF stag.ID \in DOMAIN stags
    THEN [ok |-> FALSE, bucket |-> stags]
    ELSE [ok |-> TRUE, bucket |-> Put(stags, stag.ID, stag)]

\* the stag as unmarshalled from its record (its Anchors map, filled by
\* ListAnchors, is not read by the engine)
GetStag(stags, stagID) ==
    IF stagID \in DOMAIN stags
    THEN [ok |-> TRUE, stag |-> stags[stagID]]
    ELSE [ok |-> FALSE, stag |-> Nil]

\* replaces Stats in the stored record and keeps the rest of it
UpdateStagStats(stags, stagID, stats) ==
    IF stagID \notin DOMAIN stags
    THEN [ok |-> FALSE, bucket |-> stags]
    ELSE [ok |-> TRUE,
          bucket |-> Put(stags, stagID, [stags[stagID] EXCEPT !.Stats = stats])]

\* CreateAnchor without the existence check: an upsert
CreateAnchorUpserts(anchors, anchor) ==
    [ok |-> TRUE,
     bucket |-> Put(anchors, AnchorKey(anchor.StagID, anchor.ID), anchor)]

CreateAnchor(anchors, anchor) ==
    IF AnchorKey(anchor.StagID, anchor.ID) \in DOMAIN anchors
    THEN [ok |-> FALSE, bucket |-> anchors]
    ELSE [ok |-> TRUE,
          bucket |-> Put(anchors, AnchorKey(anchor.StagID, anchor.ID), anchor)]

UpdateAnchor(anchors, anchor) ==
    IF AnchorKey(anchor.StagID, anchor.ID) \notin DOMAIN anchors
    THEN [ok |-> FALSE, bucket |-> anchors]
    ELSE [ok |-> TRUE,
          bucket |-> Put(anchors, AnchorKey(anchor.StagID, anchor.ID), anchor)]

\* the cursor scan from Seek(prefix) while the key has the prefix
GetAnchorVersions(versions, stagID, anchorID) ==
    LET ks == SortKeys({k \in DOMAIN versions :
                            HasPrefix(k, VersionPrefix(stagID, anchorID))})
    IN [i \in 1..Len(ks) |-> versions[ks[i]]]

\* the stored anchor record; the chain comes from GetAnchorVersions.  The
\* Versions array that UpdateAnchor marshals into the record is overwritten here
\* on every read and is left out of the record.
GetAnchor(anchors, versions, stagID, anchorID) ==
    IF AnchorKey(stagID, anchorID) \in DOMAIN anchors
    THEN [ok |-> TRUE, anchor |-> anchors[AnchorKey(stagID, anchorID)],
          Versions |-> GetAnchorVersions(versions, stagID, anchorID)]
    ELSE [ok |-> FALSE, anchor |-> Nil, Versions |-> <<>>]

\* bucket.Put(stagID:anchorID:version.VersionID, version): no existence check
AddAnchorVersion(versions, stagID, anchorID, version) ==
    [ok |-> TRUE,
     bucket |-> Put(versions, VersionKey(stagID, anchorID, version.VersionID),
                    version)]


(* ------------------------------- events ------------------------------- *)

S1 == <<83, 49>>
ClientC1 == <<67, 49>>
ClientC2 == <<67, 50>>
D1 == <<68, 49>>
D2 == <<68, 50>>
IdA == <<65>>
Ev1 == <<101, 49>>
Ev2 == <<101, 50>>
StrWall == <<119, 97, 108, 108>>

TransformAt(x) ==
    [Translation |-> <<x, 0, 0>>, Rotation |-> <<0, 0, 0, 1>>, Scale |-> <<1, 1, 1>>]

PoseAt(x) ==
    [Transform |-> Some(TransformAt(x)), Velocity |-> <<0, 0, 0>>,
     Acceleration |-> <<0, 0, 0>>, Confidence |-> 1]

\* a triangle in the plane z = 0, and the same triangle with its last vertex
\* lifted to z = 1
TriangleFlat == <<0, 0, 0, 1, 0, 0, 0, 1, 0>>
TriangleLifted == <<0, 0, 0, 1, 0, 0, 0, 1, 1>>

MeshOf(vertices) ==
    [AnchorID |-> IdA, Vertices |-> vertices, Faces |-> <<0, 1, 2>>,
     Classification |-> StrWall, Confidence |-> 1]

Event(id, type, session, client, device, frame) ==
    [EventID |-> id, EventType |-> type, SessionID |-> session,
     ClientID |-> client, DeviceID |-> device, FrameNumber |-> frame,
     Transform |-> Nil, MeshData |-> Nil, PoseData |-> Nil, CameraData |-> Nil,
     DepthData |-> Nil, PointCloudData |-> Nil, LightingData |-> Nil]

\* poses of two clients in session S1 (client C1 at two positions), and a pose
\* without session id
PoseEvents ==
    {[Event(Ev1, StrPose, S1, ClientC1, D1, 1) EXCEPT !.PoseData = Some(PoseAt(0))],
     [Event(Ev1, StrPose, S1, ClientC1, D1, 1) EXCEPT !.PoseData = Some(PoseAt(1))],
     [Event(Ev1, StrPose, S1, ClientC2, D2, 1) EXCEPT !.PoseData = Some(PoseAt(0))],
     [Event(Ev1, StrPose, <<>>, ClientC1, D1, 1) EXCEPT !.PoseData = Some(PoseAt(0))]}

\* meshes of anchor "A": a triangle, the same triangle resent under another
\* event id in the next frame, and the triangle with a lifted vertex
MeshEvents ==
    {[Event(Ev1, StrMesh, S1, ClientC1, D1, 1) EXCEPT !.MeshData = Some(MeshOf(TriangleFlat))],
     [Event(Ev2, StrMesh, S1, ClientC1, D2, 2) EXCEPT !.MeshData = Some(MeshOf(TriangleFlat))],
     [Event(Ev1, StrMesh, S1, ClientC1, D1, 1) EXCEPT !.MeshData = Some(MeshOf(TriangleLifted))]}

\* a mesh event without its payload, and an event of no known type
OtherEvents ==
    {Event(Ev1, StrMesh, S1, ClientC1, D1, 1), Event(Ev1, StrOther, S1, ClientC2, D1, 1)}

Events == PoseEvents \cup MeshEvents \cup OtherEvents

\* an anchor id that contains the key separator
IdAB == <<65, 58, 66>>
StrRGB == <<114, 103, 98>>

\* The events behind the read and delete operations: two meshes of anchor "A"
\* and two of anchor "A:B" in session S1, and a pose without session id.
ApiEvents ==
    {[Event(Ev1, StrMesh, S1, ClientC1, D1, 1) EXCEPT !.MeshData = Some(MeshOf(TriangleFlat))],
     [Event(Ev1, StrMesh, S1, ClientC1, D1, 1) EXCEPT !.MeshData = Some(MeshOf(TriangleLifted))],
     [Event(Ev1, StrMesh, S1, ClientC1, D1, 1) EXCEPT
         !.MeshData = Some([MeshOf(TriangleFlat) EXCEPT !.AnchorID = IdAB])],
     [Event(Ev1, StrMesh, S1, ClientC1, D1, 1) EXCEPT
         !.MeshData = Some([MeshOf(TriangleLifted) EXCEPT !.AnchorID = IdAB])],
     [Event(Ev1, StrPose, <<>>, ClientC1, D1, 1) EXCEPT !.PoseData = Some(PoseAt(0))]}

CameraFrame ==
    [Width |-> 2, Height |-> 1, Format |-> StrRGB, ImageData |-> <<7, 8>>,
     Intrinsics |-> <<1, 0, 0, 0, 1, 0, 0, 0, 1>>, Transform |-> Nil]
DepthFrame == [Width |-> 2, Height |-> 1, Data |-> <<3, 4>>]
PointCloudFrame == [Points |-> <<0, 0, 0, 1, 1, 1>>]
LightingFrame ==
    [AmbientIntensity |-> 1, DirectionalLight |-> <<0, 1, 0>>,
     SphericalHarmonics |-> <<1, 2>>, ColorTemperature |-> 6500]

\* the frame numbers and clients of the events of every type
TypedFrames == {1, 12}
TypedClients == {ClientC1, ClientC2}

\* an event of the given type with its payload, for one client and frame
Typed(type, client, frame) ==
    LET e == Event(Ev1, type, S1, client, D1, frame)
    IN IF type = StrMesh
         THEN [e EXCEPT !.MeshData = Some([MeshOf(TriangleFlat) EXCEPT !.AnchorID = <<>>])]
       ELSE IF type = StrPose THEN [e EXCEPT !.PoseData = Some(PoseAt(0))]
       ELSE IF type = StrCamera THEN [e EXCEPT !.CameraData = Some(CameraFrame)]
       ELSE IF type = StrDepth THEN [e EXCEPT !.DepthData = Some(DepthFrame)]
       ELSE IF type = StrPointCloud
         THEN [e EXCEPT !.PointCloudData = Some(PointCloudFrame)]
       ELSE IF type = StrLighting THEN [e EXCEPT !.LightingData = Some(LightingFrame)]
       ELSE e

KnownTypes == {StrMesh, StrPose, StrCamera, StrDepth, StrPointCloud, StrLighting}

\* events of the six known types and of two other types, with their payload;
\* a mesh that names its anchor; and the six known types without payload
TypedEvents ==
    {Typed(type, client, frame) :
         type \in KnownTypes \cup {StrOther, StrGeneric},
         client \in TypedClients, frame \in TypedFrames}
    \cup {[Event(Ev1, StrMesh, S1, ClientC1, D1, 12) EXCEPT
              !.MeshData = Some(MeshOf(TriangleFlat))]}
    \cup {Event(Ev1, type, S1, ClientC1, D1, 1) : type \in KnownTypes}

\* camera frames that agree in everything but the image: two images of equal
\* length and a longer one
CameraImages == {<<7, 8>>, <<7, 9>>, <<7, 8, 9>>}
CameraEvents ==
    {[Typed(StrCamera, client, 1) EXCEPT
         !.CameraData = Some([CameraFrame EXCEPT !.ImageData = image])] :
         client \in TypedClients, image \in CameraImages}

AllEvents == Events \cup ApiEvents \cup TypedEvents \cup CameraEvents

\* hasher.CalculateEventHash(event) for every event of the model, computed once
HashOf == [e \in AllEvents |-> CalculateEventHash(e)]
\* performance.CalculateGeometrySignature(event.MeshData) for every mesh event of
\* the model, computed once
SignatureOf ==
    [e \in {x \in AllEvents : x.MeshData # Nil} |->
        CalculateGeometrySignature(e.MeshData[1])]

(* ------------------------------- engine ------------------------------- *)

\* the store writes of processEvent, in program order; "none" injects no error
Writes == {"CreateStag", "CreateAnchor", "AddAnchorVersion", "UpdateAnchor",
           "UpdateStagStats"}

\* the result of a store write when the transaction named by fail returns an
\* error (disk full, database closed at shutdown): nothing of it is committed
Tx(fail, name, bucket, res) ==
    IF fail = name THEN [ok |-> FALSE, bucket |-> bucket] ELSE res

\* what one call of processEvent leaves: the three buckets and how it ended
Ended(stags, anchors, versions, outcome, stagID, anchorID, info) ==
    [stags |-> stags, anchors |-> anchors, versions |-> versions,
     outcome |-> outcome, stagID |-> stagID, anchorID |-> anchorID,
     newAnchor |-> info.newAnchor, headEqual |-> info.headEqual,
     sigEqual |-> info.sigEqual]

NoInfo == [newAnchor |-> FALSE, headEqual |-> FALSE, sigEqual |-> FALSE]

\* the nil check in processMeshEvent only
MissingPayloadMeshOnly(event) ==
    event.EventType = StrMesh /\ event.MeshData = Nil

\* the switch of processEvent and the nil checks of the process<Type>Event
MissingPayload(event) ==
    \/ event.EventType = StrMesh /\ event.MeshData = Nil
    \/ event.EventType = StrPose /\ event.PoseData = Nil
    \/ event.EventType = StrCamera /\ event.CameraData = Nil
    \/ event.EventType = StrDepth /\ event.DepthData = Nil
    \/ event.EventType = StrPointCloud /\ event.PointCloudData = Nil
    \/ event.EventType = StrLighting /\ event.LightingData = Nil

\* the anchorID with the event type itself as the prefix of a point cloud's id
AnchorIDForTypeName(event) ==
    IF event.EventType = StrMesh /\ event.MeshData[1].AnchorID # <<>>
    THEN event.MeshData[1].AnchorID
    ELSE IF event.EventType \in {StrMesh, StrPointCloud}
    THEN event.EventType \o StrUnderscore \o event.ClientID \o StrUnderscore
             \o FormatInt(event.FrameNumber)
    ELSE IF event.EventType \in {StrPose, StrCamera, StrDepth, StrLighting}
    THEN event.EventType \o StrUnderscore \o event.ClientID
    ELSE StrGeneric \o StrUnderscore \o event.ClientID \o StrUnderscore
             \o FormatInt(event.FrameNumber)

\* the anchorID each process<Type>Event passes to processAnchorEvent
AnchorIDFor(event) ==
    IF event.EventType = StrMesh THEN
        IF event.MeshData[1].AnchorID = <<>>
        THEN StrMesh \o StrUnderscore \o event.ClientID \o StrUnderscore
                 \o FormatInt(event.FrameNumber)
        ELSE event.MeshData[1].AnchorID
    ELSE IF event.EventType = StrPose THEN
        StrPose \o StrUnderscore \o event.ClientID
    ELSE IF event.EventType = StrCamera THEN
        StrCamera \o StrUnderscore \o event.ClientID
    ELSE IF event.EventType = StrDepth THEN
        StrDepth \o StrUnderscore \o event.ClientID
    ELSE IF event.EventType = StrPointCloud THEN
        StrPointcloudLower \o StrUnderscore \o event.ClientID \o StrUnderscore
            \o FormatInt(event.FrameNumber)
    ELSE IF event.EventType = StrLighting THEN
        StrLighting \o StrUnderscore \o event.ClientID
    ELSE StrGeneric \o StrUnderscore \o event.ClientID \o StrUnderscore
             \o FormatInt(event.FrameNumber)

\* the session id as it comes, without the default
StagIDForSession(event) == event.SessionID

\* stagID := event.SessionID; if stagID == "" { stagID = "default" }
StagIDFor(event) ==
    IF event.SessionID = <<>> THEN StrDefault ELSE event.SessionID

NewStag(stagID) ==
    [ID |-> stagID, Stats |-> ZeroStats, Metadata |-> {}]

NewAnchor(stagID, anchorID, event, contentHash) ==
    [ID |-> anchorID, StagID |-> stagID, CurrentHash |-> contentHash,
     LastSessionID |-> event.SessionID, LastClientID |-> event.ClientID,
     LastDeviceID |-> event.DeviceID, Metadata |-> [geom_signature |-> Nil]]

\* if anchor.CurrentHash == contentHash { return nil }
\* the engine without the content-hash check
ContentUnchangedNever(anchor, contentHash) == FALSE

ContentUnchanged(anchor, contentHash) ==
    anchor.CurrentHash = contentHash

\* the engine without the geometric-signature filter
GeometryUnchangedNever(anchor, event) == FALSE

\* event.EventType == "mesh" && event.MeshData != nil
\*     && anchor.Metadata["geom_signature"] == geomSig
GeometryUnchanged(anchor, event) ==
    /\ event.EventType = StrMesh
    /\ event.MeshData # Nil
    /\ anchor.Metadata.geom_signature = Some(SignatureOf[event])

\* the signature is compared and not kept in the anchor
WithSignatureDropped(anchor, event) == anchor

\* anchor.Metadata["geom_signature"] = geomSig, for a mesh event only
WithSignature(anchor, event) ==
    IF event.EventType = StrMesh /\ event.MeshData # Nil
    THEN [anchor EXCEPT !.Metadata.geom_signature = Some(SignatureOf[event])]
    ELSE anchor

\* fmt.Sprintf("v%d", time.Now().Unix())
NewVersionID(clock) == StrV \o FormatInt(clock)

\* if len(anchor.Versions) == 0 { version.ChangeType = "create" }
ChangeTypeFor(chain) ==
    IF Len(chain) = 0 THEN "create" ELSE "update"

NewVersion(event, contentHash, chain, clock) ==
    [VersionID |-> NewVersionID(clock), Hash |-> contentHash,
     ChangeType |-> ChangeTypeFor(chain),
     Transform |-> event.Transform, MeshData |-> event.MeshData,
     PoseData |-> event.PoseData, CameraData |-> event.CameraData,
     DepthData |-> event.DepthData, PointCloudData |-> event.PointCloudData,
     LightingData |-> event.LightingData,
     EventID |-> event.EventID, SessionID |-> event.SessionID,
     ClientID |-> event.ClientID, DeviceID |-> event.DeviceID,
     FrameNumber |-> event.FrameNumber]

\* anchor.CurrentHash = contentHash and the three Last... fields
WithHead(anchor, event, contentHash) ==
    [anchor EXCEPT !.CurrentHash = contentHash,
                   !.LastSessionID = event.SessionID,
                   !.LastClientID = event.ClientID,
                   !.LastDeviceID = event.DeviceID]

\* the statistics step counting the version but not the event
TrackStatsVersionOnly(stag, event) ==
    [stag.Stats EXCEPT !.VersionCount = @ + 1]

\* stag.Stats after the increments; stag.Metadata is the map GetStag
\* unmarshalled (or the empty map of a stag created by this event)
TrackStats(stag, event) ==
    LET sessionKey == <<"session_", event.SessionID>>
        clientKey == <<"client_", event.ClientID>>
        deviceKey == <<"device_", event.DeviceID>>
        bump(n, key) == IF key \notin stag.Metadata THEN n + 1 ELSE n
    IN [stag.Stats EXCEPT
          !.EventCount = @ + 1,
          !.VersionCount = @ + 1,
          !.SessionCount = bump(@, sessionKey),
          !.ClientCount = bump(@, clientKey),
          !.DeviceCount = bump(@, deviceKey)]

\* from "Create new version" to the end of processAnchorEvent
AppendVersion(stags, anchors, versions, stag, anchor, chain, event, contentHash, fail, clock, info) ==
    LET version == NewVersion(event, contentHash, chain, clock)
        added == Tx(fail, "AddAnchorVersion", versions,
                    AddAnchorVersion(versions, stag.ID, anchor.ID, version))
        updated == Tx(fail, "UpdateAnchor", anchors,
                      UpdateAnchor(anchors, WithHead(anchor, event, contentHash)))
        stats == Tx(fail, "UpdateStagStats", stags,
                    UpdateStagStats(stags, stag.ID, TrackStats(stag, event)))
    IN IF ~added.ok
       THEN Ended(stags, anchors, versions, "err_add_version",
                  stag.ID, anchor.ID, info)
       ELSE IF ~updated.ok
       THEN Ended(stags, anchors, added.bucket, "err_update_anchor",
                  stag.ID, anchor.ID, info)
       ELSE IF ~stats.ok
       THEN Ended(stags, updated.bucket, added.bucket, "err_update_stats",
                  stag.ID, anchor.ID, info)
       ELSE Ended(stats.bucket, updated.bucket, added.bucket, "appended",
                  stag.ID, anchor.ID, info)

processAnchorEvent(stags, anchors, versions, stag, anchorID, event, fail, clock) ==
    LET contentHash == HashOf[event]
        got == GetAnchor(anchors, versions, stag.ID, anchorID)
        fresh == NewAnchor(stag.ID, anchorID, event, contentHash)
        created == Tx(fail, "CreateAnchor", anchors, CreateAnchor(anchors, fresh))
        anchor == IF got.ok THEN got.anchor ELSE fresh
        anchors1 == IF got.ok THEN anchors ELSE created.bucket
        info == [newAnchor |-> ~got.ok,
                 headEqual |-> got.ok /\ ContentUnchanged(got.anchor, contentHash),
                 sigEqual |-> got.ok /\ GeometryUnchanged(got.anchor, event)]
    IN IF ~got.ok /\ ~created.ok
       THEN Ended(stags, anchors, versions, "err_create_anchor",
                  stag.ID, anchorID, info)
       ELSE IF ContentUnchanged(anchor, contentHash)
       THEN Ended(stags, anchors1, versions, "skip_hash", stag.ID, anchorID, info)
       ELSE IF GeometryUnchanged(anchor, event)
       THEN Ended(stags, anchors1, versions, "skip_geom", stag.ID, anchorID, info)
       ELSE AppendVersion(stags, anchors1, versions, stag,
                          WithSignature(anchor, event), got.Versions, event,
                          contentHash, fail, clock, info)

processEvent(stags, anchors, versions, event, fail, clock) ==
    LET stagID == StagIDFor(event)
        got == GetStag(stags, stagID)
        created == Tx(fail, "CreateStag", stags, CreateStag(stags, NewStag(stagID)))
        stag == IF got.ok THEN got.stag ELSE NewStag(stagID)
        stags1 == IF got.ok THEN stags ELSE created.bucket
    IN IF ~got.ok /\ ~created.ok
       THEN Ended(stags, anchors, versions, "err_create_stag", stagID, <<>>, NoInfo)
       ELSE IF MissingPayload(event)
       THEN Ended(stags1, anchors, versions, "invalid", stagID, <<>>, NoInfo)
       ELSE processAnchorEvent(stags1, anchors, versions, stag,
                               AnchorIDFor(event), event, fail, clock)


(* ----------------------------- system stats -------------------------- *)

\* initializeDatabase: the SystemStats record with its counters at zero
ZeroSystemStats ==
    [StagCount |-> 0, AnchorCount |-> 0, VersionCount |-> 0, EventCount |-> 0]

\* no operation called yet
NoCall == [op |-> "none", g |-> <<>>, a |-> <<>>, status |-> 0, body |-> <<>>]

\* the goroutines that fingerprint events
Goroutines == {"worker", "other"}

(* --------------------------- batch processor -------------------------- *)

\* batchSize, the second argument of NewBatchProcessor
BatchSize == 2
\* make(chan *storage.SpatialEvent, batchSize*2)
QueueFactor == 2
QueueCap == BatchSize * QueueFactor
\* "errors": 0 in the response of HandleIngest
ResponseErrors == 0

\* the HTTP clients that post ingest batches
Clients == {"relayA", "relayB"}

\* The batches a client posts: three mesh events of anchor "A" of which the
\* middle one lacks its mesh data, and two equal poses of client C2.
MeshBatch ==
    <<[Event(Ev1, StrMesh, S1, ClientC1, D1, 1) EXCEPT !.MeshData = Some(MeshOf(TriangleFlat))],
      Event(Ev1, StrMesh, S1, ClientC1, D1, 1),
      [Event(Ev1, StrMesh, S1, ClientC1, D1, 1) EXCEPT !.MeshData = Some(MeshOf(TriangleLifted))]>>

PoseBatch ==
    <<[Event(Ev1, StrPose, S1, ClientC2, D2, 1) EXCEPT !.PoseData = Some(PoseAt(0))],
      [Event(Ev1, StrPose, S1, ClientC2, D2, 1) EXCEPT !.PoseData = Some(PoseAt(0))]>>

\* what each client posts
BatchOf == [p \in Clients |-> IF p = "relayA" THEN MeshBatch ELSE PoseBatch]

\* HandleIngest before a request, and processBatch's counters at its start
Idle == [pc |-> "idle", sent |-> 0, errors |-> 0]
NoCounts == [size |-> 0, processed |-> 0, errors |-> 0]


(* ------------------------------ behaviour ----------------------------- *)

Errors == {"err_create_stag", "err_create_anchor", "err_add_version",
           "err_update_anchor", "err_update_stats"}

\* the outcomes in which AddAnchorVersion committed
Wrote == {"appended", "err_update_anchor", "err_update_stats"}

NoOp ==
    [outcome |-> "none", stagID |-> <<>>, anchorID |-> <<>>,
     newAnchor |-> FALSE, headEqual |-> FALSE, sigEqual |-> FALSE,
     before |-> 0, repeat |-> FALSE,
     prevOutcome |-> "none", prevNewAnchor |-> FALSE, prevHeadEqual |-> FALSE,
     prevSigEqual |-> FALSE, prevBefore |-> 0]

Init ==
    /\ stagsBucket = <<>>
    /\ anchorsBucket = <<>>
    /\ versionsBucket = <<>>
    /\ now = StartUnix
    /\ nEvents = 0
    /\ nFailures = 0
    /\ lastEv = Nil
    /\ last = NoOp
    /\ producers = {}
    /\ inflight = Nil
    /\ reader = Nil
    /\ seen = Nil
    /\ queue = <<>>
    /\ closed = FALSE
    /\ batch = <<>>
    /\ cancelled = FALSE
    /\ worker = "select"
    /\ toProcess = <<>>
    /\ counts = NoCounts
    /\ stop = "idle"
    /\ request = [p \in Clients |-> <<>>]
    /\ handler = [p \in Clients |-> Idle]
    /\ enqueued = <<>>
    /\ signalledAt = Nil
    /\ passed = <<>>
    /\ applied = <<>>
    /\ dropped = {}
    /\ finalFlush = Nil
    /\ systemStats = ZeroSystemStats
    /\ owner = <<>>
    /\ call = NoCall
    /\ nCalls = 0
    /\ hashers = <<>>
    /\ pooled = {}
    /\ holding = [t \in Goroutines |-> Nil]
    /\ sums = {}

\* the wall clock reaches the next second
Tick ==
    /\ now < StartUnix + MaxTicks
    /\ now' = now + 1
    /\ UNCHANGED <<stagsBucket, anchorsBucket, versionsBucket, nEvents,
                   nFailures, lastEv, last, producers, readVars, apiVars, poolVars, batchVars>>

\* the worker processes one event (one iteration of processBatch's loop)
Process(event, fail, limit) ==
    /\ nEvents < limit
    /\ fail # "none" => nFailures < MaxFailures
    /\ \E r \in {processEvent(stagsBucket, anchorsBucket, versionsBucket, event,
                               fail, now)} :
       /\ fail # "none" => r.outcome \in Errors
       /\ nFailures' = IF fail # "none" THEN nFailures + 1 ELSE nFailures
       /\ stagsBucket' = r.stags
       /\ anchorsBucket' = r.anchors
       /\ versionsBucket' = r.versions
       /\ nEvents' = nEvents + 1
       /\ lastEv' = Some(event)
       /\ last' = [outcome |-> r.outcome, stagID |-> r.stagID,
                   anchorID |-> r.anchorID, newAnchor |-> r.newAnchor,
                   headEqual |-> r.headEqual, sigEqual |-> r.sigEqual,
                   before |-> Len(GetAnchorVersions(versionsBucket, r.stagID,
                                                    r.anchorID)),
                   repeat |-> lastEv = Some(event),
                   prevOutcome |-> last.outcome,
                   prevNewAnchor |-> last.newAnchor,
                   prevHeadEqual |-> last.headEqual,
                   prevSigEqual |-> last.sigEqual,
                   prevBefore |-> last.before]
       /\ producers' = IF r.outcome \in Wrote
                       THEN producers \cup {<<r.stagID, event.SessionID,
                                              event.ClientID, event.DeviceID>>}
                       ELSE producers
       /\ UNCHANGED now

Ingest ==
    /\ \E event \in Events : Process(event, "none", MaxEvents)
    /\ UNCHANGED <<readVars, apiVars, poolVars, batchVars>>

\* the same step in the behaviours in which store writes may fail
IngestShort ==
    /\ \E event \in Events : Process(event, "none", MaxEventsFailing)
    /\ UNCHANGED <<readVars, apiVars, poolVars, batchVars>>

\* the worker processes one event and one of its store writes returns an error
IngestFailing ==
    /\ \E event \in Events, fail \in Writes : Process(event, fail, MaxEventsFailing)
    /\ UNCHANGED <<readVars, apiVars, poolVars, batchVars>>

Next == Tick \/ Ingest

Spec == Init /\ [][Next]_vars

NextFail == Tick \/ IngestShort \/ IngestFailing

SpecFail == Init /\ [][NextFail]_vars


(* ----------------------------- event types ---------------------------- *)

\* number of events the engine applies in a behaviour over every event type
MaxEventsTyped == 2

\* the worker processes one event of any type, with or without its payload
IngestTyped ==
    /\ \E event \in TypedEvents : Process(event, "none", MaxEventsTyped)
    /\ UNCHANGED <<readVars, apiVars, poolVars, batchVars>>

NextTypes == Tick \/ IngestTyped

SpecTypes == Init /\ [][NextTypes]_vars

\* number of camera events the engine applies in a behaviour
MaxEventsCamera == 3

\* the worker processes one camera event
IngestCamera ==
    /\ \E event \in CameraEvents : Process(event, "none", MaxEventsCamera)
    /\ UNCHANGED <<readVars, apiVars, poolVars, batchVars>>

NextCamera == Tick \/ IngestCamera

SpecCamera == Init /\ [][NextCamera]_vars


(* ------------------------------ queries ------------------------------- *)

\* number of events the engine applies in a behaviour with queries or deletes
MaxEventsApi == 3
\* number of query, delete and store calls in one behaviour
MaxCalls == 1
\* the largest offset a history request gives
MaxOffset == 2

\* limit := 50
DefaultLimit == 50
\* parsed > 0 && parsed <= 1000
MaxLimit == 1000

\* the ids the callers address
Graphs == {S1, StrDefault}
AnchorIDs == {IdA, IdAB}

\* the values of the offset and limit query parameters; Nil is a request
\* without the parameter
OffsetQueries == {Nil} \cup {Some(n) : n \in 0..MaxOffset}
LimitQueries == {Nil} \cup {Some(n) : n \in {0, 1, 2, MaxLimit + 1}}

\* HandleIngest queues one event and adds it to SystemStats.EventCount, and
\* the engine applies it; the version it adds is recorded with the stag and
\* anchor that AddAnchorVersion was called for
IngestFrom(events, limit) ==
    /\ \E event \in events : Process(event, "none", limit)
    /\ systemStats' = [systemStats EXCEPT !.EventCount = @ + 1]
    /\ owner' = IF last'.outcome \in Wrote
                THEN Put(owner, VersionKey(last'.stagID, last'.anchorID,
                                           NewVersionID(now)),
                         <<last'.stagID, last'.anchorID>>)
                ELSE owner
    /\ UNCHANGED <<call, nCalls, readVars, batchVars, poolVars>>

IngestApi == IngestFrom(ApiEvents, MaxEventsApi)

\* the keys of a bucket that a cursor loop from Seek(prefix) goes through
ScanKeys(bucket, prefix) ==
    SortKeys({k \in DOMAIN bucket : HasPrefix(k, prefix)})

\* bucket.ForEach over the stags bucket: the stag ids in key order
ListStags(stags) == SortKeys(DOMAIN stags)

\* the anchors under the prefix stagID + ":", each with its versions
ListAnchors(anchors, versions, stagID) ==
    LET ks == ScanKeys(anchors, stagID \o StrColon)
    IN [i \in 1..Len(ks) |->
          [anchor |-> anchors[ks[i]],
           Versions |-> GetAnchorVersions(versions, stagID, anchors[ks[i]].ID)]]

\* the second loop of GetAnchorVersionsWithPaging over the records left
RECURSIVE PageLoop(_, _, _, _, _)
PageLoop(records, current, offset, limit, page) ==
    IF records = <<>> THEN page
    ELSE IF current < offset
    THEN PageLoop(Tail(records), current + 1, offset, limit, page)
    ELSE IF Len(page) >= limit THEN page
    ELSE PageLoop(Tail(records), current + 1, offset, limit,
                  Append(page, Head(records)))

\* total counts the keys under the prefix; the page skips offset and takes limit
GetAnchorVersionsWithPaging(versions, stagID, anchorID, offset, limit) ==
    LET records == GetAnchorVersions(versions, stagID, anchorID)
    IN [versions |-> PageLoop(records, 0, offset, limit, <<>>),
        total |-> Len(records)]

GetAnchorHistory(versions, stagID, anchorID, offset, limit) ==
    LET paged == GetAnchorVersionsWithPaging(versions, stagID, anchorID, offset, limit)
    IN [AnchorID |-> anchorID, StagID |-> stagID, Versions |-> paged.versions,
        Total |-> paged.total, Offset |-> offset, Limit |-> limit]

\* offset := 0; replaced by the parameter when it is given
ParseOffset(q) == IF q # Nil THEN q[1] ELSE 0

\* limit := 50; replaced by the parameter when it is in 1..1000
ParseLimit(q) ==
    IF q # Nil /\ q[1] > 0 /\ q[1] <= MaxLimit THEN q[1] ELSE DefaultLimit

\* the handler has answered: the operation, what it addressed, the HTTP status
\* and the encoded body
Called(op, g, a, status, body) ==
    /\ nCalls < MaxCalls
    /\ nCalls' = nCalls + 1
    /\ call' = [op |-> op, g |-> g, a |-> a, status |-> status, body |-> body]

Reads ==
    UNCHANGED <<stagsBucket, anchorsBucket, versionsBucket, now, nEvents,
                nFailures, lastEv, last, producers, systemStats, owner,
                readVars, batchVars, poolVars>>

\* GET /stags/{stag_id}
HandleGetStag(g) ==
    /\ LET got == GetStag(stagsBucket, g)
       IN IF ~got.ok THEN Called("get_graph", g, <<>>, 404, <<>>)
          ELSE Called("get_graph", g, <<>>, 200,
                      [stag |-> got.stag,
                       Anchors |-> ListAnchors(anchorsBucket, versionsBucket, g)])
    /\ Reads

\* GET /stats/{stag_id}
HandleGetStagStats(g) ==
    /\ LET got == GetStag(stagsBucket, g)
       IN IF ~got.ok THEN Called("get_graph_stats", g, <<>>, 404, <<>>)
          ELSE Called("get_graph_stats", g, <<>>, 200, got.stag.Stats)
    /\ Reads

\* GET /stags/{stag_id}/anchors: ListAnchors returns no error for a stag that
\* is not stored
HandleListAnchors(g) ==
    /\ Called("list_anchors", g, <<>>, 200,
              ListAnchors(anchorsBucket, versionsBucket, g))
    /\ Reads

\* GET /stags/{stag_id}/anchors/{anchor_id}
HandleGetAnchor(g, a) ==
    /\ LET got == GetAnchor(anchorsBucket, versionsBucket, g, a)
       IN IF ~got.ok THEN Called("get_anchor", g, a, 404, <<>>)
          ELSE Called("get_anchor", g, a, 200,
                      [anchor |-> got.anchor, Versions |-> got.Versions])
    /\ Reads

\* GET /stags/{stag_id}/anchors/{anchor_id}/history?offset=&limit=
HandleGetAnchorHistory(g, a, offsetQ, limitQ) ==
    /\ Called("get_anchor_history", g, a, 200,
              [query |-> [offset |-> offsetQ, limit |-> limitQ],
               history |-> GetAnchorHistory(versionsBucket, g, a,
                                            ParseOffset(offsetQ),
                                            ParseLimit(limitQ))])
    /\ Reads

Query ==
    \E g \in Graphs :
        \/ HandleGetStag(g)
        \/ HandleGetStagStats(g)
        \/ HandleListAnchors(g)
        \/ \E a \in AnchorIDs :
               \/ HandleGetAnchor(g, a)
               \/ \E offsetQ \in OffsetQueries, limitQ \in LimitQueries :
                      HandleGetAnchorHistory(g, a, offsetQ, limitQ)

NextQuery == Tick \/ IngestApi \/ Query

SpecQuery == Init /\ [][NextQuery]_vars


(* ------------------------- deletes and clean -------------------------- *)

\* number of events the engine applies in a behaviour with deletes
MaxEventsDelete == 5

\* the events behind the deletes: the meshes of the queries and two poses of
\* client C1 in session S1
DeleteEvents ==
    {e \in ApiEvents : e.EventType = StrMesh} \cup
    {[Event(Ev1, StrPose, S1, ClientC1, D1, 1) EXCEPT !.PoseData = Some(PoseAt(0))],
     [Event(Ev1, StrPose, S1, ClientC1, D1, 1) EXCEPT !.PoseData = Some(PoseAt(1))]}

IngestDelete == IngestFrom(DeleteEvents, MaxEventsDelete)

\* bucket.Delete(k) for every key of ks
Remove(bucket, ks) == [k \in (DOMAIN bucket) \ ks |-> bucket[k]]

\* The positions a cursor loop reaches among the n keys under its prefix when
\* its body deletes the key it stands on.  bbolt leaves a cursor undefined
\* once the bucket is changed under it ("you must reposition your cursor after
\* mutating data").  A cursor that was positioned before the transaction
\* changed the bucket (stale = FALSE) reads the unchanged page and reaches
\* every key.  A cursor positioned after an earlier Delete of the transaction
\* (stale = TRUE) may stand on the node the deletes are applied to: a Delete
\* then shifts the following entry into the cursor's place and Next() passes
\* over it.  The first key is reached by Seek; a key is passed over only right
\* after a deleted one.
Visits(n, stale) ==
    IF stale
    THEN {V \in SUBSET (1..n) :
              \A i \in 1..n : i \notin V => (i > 1 /\ (i - 1) \in V)}
    ELSE {1..n}

\* for k := c.Seek(prefix); hasPrefix(k); k = c.Next() { bucket.Delete(k) }:
\* the buckets the loop can leave
DeleteScan(bucket, prefix, stale) ==
    LET ks == ScanKeys(bucket, prefix)
    IN {Remove(bucket, {ks[i] : i \in V}) : V \in Visits(Len(ks), stale)}

\* one transaction: the versions under stagID:anchorID: and then the anchor key
DeleteAnchor(anchors, versions, stagID, anchorID) ==
    {[anchors |-> Remove(anchors, {AnchorKey(stagID, anchorID)}), versions |-> v] :
        v \in DeleteScan(versions, VersionPrefix(stagID, anchorID), FALSE)}

\* the inner loop of DeleteStag for the anchor keys of the outer loop, in
\* order: versionPrefix is the anchor key followed by ":", and every anchor
\* gets a new cursor on the versions bucket as the earlier loops left it
RECURSIVE DeleteVersionsOf(_, _, _)
DeleteVersionsOf(buckets, anchorKeys, original) ==
    IF anchorKeys = <<>> THEN buckets
    ELSE DeleteVersionsOf(
             UNION {DeleteScan(v, Head(anchorKeys) \o StrColon, v # original) :
                        v \in buckets},
             Tail(anchorKeys), original)

\* one transaction: for every anchor key under stagID: its versions and the
\* key itself, then the stag key
DeleteStag(stags, anchors, versions, stagID) ==
    LET ks == ScanKeys(anchors, stagID \o StrColon)
    IN {[stags |-> Remove(stags, {stagID}),
         anchors |-> Remove(anchors, Items(ks)),
         versions |-> v] : v \in DeleteVersionsOf({versions}, ks, versions)}

\* cleanDatabase: DeleteStag for every stag that ListStags returned
RECURSIVE DeleteAll(_, _)
DeleteAll(stores, stagIDs) ==
    IF stagIDs = <<>> THEN stores
    ELSE DeleteAll(
             UNION {DeleteStag(st.stags, st.anchors, st.versions, Head(stagIDs)) :
                        st \in stores},
             Tail(stagIDs))

\* a store operation called directly has returned: err is "nil" or "error"
Returned(op, g, a, err) == Called(op, g, a, 0, err)

\* the store after a delete, with the history of the versions that are left
StoreBecomes(st) ==
    /\ stagsBucket' = st.stags
    /\ anchorsBucket' = st.anchors
    /\ versionsBucket' = st.versions
    /\ owner' = [k \in (DOMAIN owner) \cap (DOMAIN st.versions) |-> owner[k]]
    /\ UNCHANGED <<now, nEvents, nFailures, lastEv, last, producers, readVars,
                   batchVars, poolVars>>

CallDeleteStag(g) ==
    /\ \E st \in DeleteStag(stagsBucket, anchorsBucket, versionsBucket, g) :
           StoreBecomes(st)
    /\ Returned("DeleteStag", g, <<>>, "nil")
    /\ UNCHANGED systemStats

CallDeleteAnchor(g, a) ==
    /\ \E st \in DeleteAnchor(anchorsBucket, versionsBucket, g, a) :
           StoreBecomes([stags |-> stagsBucket, anchors |-> st.anchors,
                         versions |-> st.versions])
    /\ Returned("DeleteAnchor", g, a, "nil")
    /\ UNCHANGED systemStats

\* the -clean command: runs instead of the server, on the database it opened
Clean ==
    /\ \E st \in DeleteAll({[stags |-> stagsBucket, anchors |-> anchorsBucket,
                             versions |-> versionsBucket]},
                           ListStags(stagsBucket)) :
           StoreBecomes(st)
    /\ systemStats' = ZeroSystemStats
    /\ Returned("clean", <<>>, <<>>, "nil")

Delete ==
    \/ \E g \in Graphs :
           \/ CallDeleteStag(g)
           \/ \E a \in AnchorIDs : CallDeleteAnchor(g, a)
    \/ Clean

NextDelete == Tick \/ IngestDelete \/ Delete

SpecDelete == Init /\ [][NextDelete]_vars


(* ---------------------------- store calls ----------------------------- *)

\* number of events the engine applies before the store is called directly
MaxEventsStore == 2

\* replaces the whole stored record
UpdateStag(stags, stag) ==
    IF stag.ID \notin DOMAIN stags
    THEN [ok |-> FALSE, bucket |-> stags]
    ELSE [ok |-> TRUE, bucket |-> Put(stags, stag.ID, stag)]

\* the events that fill the store before it is called: they create the graphs
\* S1 and "default" and the anchors "A", "A:B" and pose_C1
StoreEvents ==
    {e \in ApiEvents : e.MeshData = Nil \/ e.MeshData[1].Vertices = TriangleFlat}

\* the records the callers of the Storage interface pass
StatsInputs == {ZeroStats, [ZeroStats EXCEPT !.EventCount = 1]}
StagInputs == {[NewStag(g) EXCEPT !.Stats = stats] : g \in Graphs, stats \in StatsInputs}
AnchorInputs ==
    {NewAnchor(g, a, event, HashOf[event]) :
         g \in Graphs, a \in AnchorIDs,
         event \in {e \in StoreEvents : e.EventType = StrMesh}}

IngestStore == IngestFrom(StoreEvents, MaxEventsStore)

\* a write to the stags bucket has returned res; err is the text of the error
\* the operation returns when it fails
StagsCall(op, g, res, err) ==
    /\ stagsBucket' = res.bucket
    /\ Returned(op, g, <<>>, IF res.ok THEN "nil" ELSE err)
    /\ UNCHANGED <<anchorsBucket, versionsBucket, now, nEvents, nFailures,
                   lastEv, last, producers, systemStats, owner, readVars,
                   batchVars, poolVars>>

\* a write to the anchors bucket has returned res
AnchorsCall(op, anchor, res, err) ==
    /\ anchorsBucket' = res.bucket
    /\ Returned(op, anchor.StagID, anchor.ID, IF res.ok THEN "nil" ELSE err)
    /\ UNCHANGED <<stagsBucket, versionsBucket, now, nEvents, nFailures,
                   lastEv, last, producers, systemStats, owner, readVars,
                   batchVars, poolVars>>

CallCreateStag(stag) ==
    StagsCall("CreateStag", stag.ID, CreateStag(stagsBucket, stag),
              "already exists")

CallUpdateStag(stag) ==
    StagsCall("UpdateStag", stag.ID, UpdateStag(stagsBucket, stag),
              "does not exist")

CallUpdateStagStats(g, stats) ==
    StagsCall("UpdateStagStats", g, UpdateStagStats(stagsBucket, g, stats),
              "not found")

CallCreateAnchor(anchor) ==
    AnchorsCall("CreateAnchor", anchor, CreateAnchor(anchorsBucket, anchor),
                "already exists")

CallUpdateAnchor(anchor) ==
    AnchorsCall("UpdateAnchor", anchor, UpdateAnchor(anchorsBucket, anchor),
                "does not exist")

NextStore ==
    \/ Tick
    \/ IngestStore
    \/ \E stag \in StagInputs : CallCreateStag(stag)
    \/ \E stag \in StagInputs : CallUpdateStag(stag)
    \/ \E g \in Graphs, stats \in StatsInputs : CallUpdateStagStats(g, stats)
    \/ \E anchor \in AnchorInputs : CallCreateAnchor(anchor)
    \/ \E anchor \in AnchorInputs : CallUpdateAnchor(anchor)

SpecStore == Init /\ [][NextStore]_vars


(* ---------------------------- hasher pool ----------------------------- *)

\* number of FastHashers hasherPool.New allocates in one behaviour
MaxHashers == 2

\* the events that are fingerprinted: the meshes of the anchors "A" and "A:B"
HashEvents == {e \in StoreEvents : e.EventType = StrMesh}

\* h.hasher.Reset(): the md5 state of a new digest
Reset(state) == <<>>

\* the md5 state PutHasher leaves in h, without the Reset
ReleasedAsIs(state) == state

\* the md5 state PutHasher leaves in h before it goes back to the pool
Released(state) == Reset(state)

\* the md5 state of h after CalculateEventHash(event): Reset, then the writes.
\* Sum(nil) appends the digest of what was written to nil and leaves the state.
Fed(state, event) == Reset(state) \o CalculateEventHash(event)

PoolSteps ==
    UNCHANGED <<stagsBucket, anchorsBucket, versionsBucket, now, nEvents,
                nFailures, lastEv, last, producers, readVars, batchVars, apiVars>>

\* hasherPool.Get() returns a hasher of the pool
GetPooled(t) ==
    /\ holding[t] = Nil
    /\ \E h \in pooled :
           /\ pooled' = pooled \ {h}
           /\ holding' = [holding EXCEPT ![t] = Some(h)]
    /\ UNCHANGED <<hashers, sums>>
    /\ PoolSteps

\* hasherPool.Get() finds nothing, or ignores what the pool holds, and calls New
GetNew(t) ==
    /\ holding[t] = Nil
    /\ Len(hashers) < MaxHashers
    /\ hashers' = Append(hashers, <<>>)
    /\ holding' = [holding EXCEPT ![t] = Some(Len(hashers) + 1)]
    /\ UNCHANGED <<pooled, sums>>
    /\ PoolSteps

\* hasher.CalculateEventHash(event), under h.mu
Calculate(t, event) ==
    /\ holding[t] # Nil
    /\ LET h == holding[t][1]
           state == Fed(hashers[h], event)
       IN /\ hashers' = [hashers EXCEPT ![h] = state]
          /\ sums' = sums \cup {[event |-> event, sum |-> state, hasher |-> h,
                                 by |-> t]}
    /\ UNCHANGED <<pooled, holding>>
    /\ PoolSteps

\* defer performance.PutHasher(hasher)
PutHasher(t) ==
    /\ holding[t] # Nil
    /\ LET h == holding[t][1]
       IN /\ hashers' = [hashers EXCEPT ![h] = Released(hashers[h])]
          /\ pooled' = pooled \cup {h}
    /\ holding' = [holding EXCEPT ![t] = Nil]
    /\ UNCHANGED sums
    /\ PoolSteps

NextHash ==
    \E t \in Goroutines :
        \/ GetPooled(t)
        \/ GetNew(t)
        \/ \E event \in HashEvents : Calculate(t, event)
        \/ PutHasher(t)

SpecHash == Init /\ [][NextHash]_vars


(* --------------------- transactions and readers ----------------------- *)

\* number of events the engine applies while a reader runs
MaxEventsRead == 2

\* the store writes of processEvent in program order
WriteOrder == <<"CreateStag", "CreateAnchor", "AddAnchorVersion", "UpdateAnchor",
                "UpdateStagStats">>

\* the writes processEvent reaches for this event on this store, in order: a
\* write is reached iff an error returned by it ends the call
Attempted(stags, anchors, versions, event, clock) ==
    LET reached(w) ==
            processEvent(stags, anchors, versions, event, w, clock).outcome \in Errors
    IN SelectSeq(WriteOrder, reached)

\* the store once the first k write transactions of the call have committed:
\* what the call leaves when it stops at the next write, or at its end
StoreAfter(stags, anchors, versions, event, clock, k) ==
    LET att == Attempted(stags, anchors, versions, event, clock)
    IN processEvent(stags, anchors, versions, event,
                    IF k < Len(att) THEN att[k + 1] ELSE "none", clock)

\* the stores the call goes through: plan[k + 1] is the store once k of its
\* write transactions have committed, the last one is the store it leaves
Plan(stags, anchors, versions, event, clock) ==
    LET att == Attempted(stags, anchors, versions, event, clock)
    IN [i \in 1..(Len(att) + 1) |->
           StoreAfter(stags, anchors, versions, event, clock, i - 1)]

\* what GetAnchor returns when both of its transactions read the same store
Snapshot(anchors, versions, stagID, anchorID) ==
    LET got == GetAnchor(anchors, versions, stagID, anchorID)
    IN [anchor |-> got.anchor, Versions |-> got.Versions]

\* the worker starts processEvent on an event
Begin(event) ==
    /\ inflight = Nil
    /\ nEvents < MaxEventsRead
    /\ \E plan \in {Plan(stagsBucket, anchorsBucket, versionsBucket, event, now)} :
         /\ inflight' = Some([event |-> event, clock |-> now,
                              stags |-> stagsBucket, anchors |-> anchorsBucket,
                              versions |-> versionsBucket, plan |-> plan,
                              done |-> 0])
         /\ reader' =
              IF reader = Nil THEN Nil
              ELSE LET r == reader[1]
                       post == plan[Len(plan)]
                   IN Some([r EXCEPT !.whole =
                              @ \cup {Snapshot(post.anchors, post.versions,
                                               r.stagID, r.anchorID)}])
    /\ UNCHANGED <<stagsBucket, anchorsBucket, versionsBucket, now, nEvents,
                   nFailures, lastEv, last, producers, seen>>
    /\ UNCHANGED <<batchVars, apiVars, poolVars>>

\* the next write transaction of the call commits
Commit ==
    /\ inflight # Nil
    /\ LET f == inflight[1]
           r == f.plan[f.done + 2]
       IN /\ f.done + 1 < Len(f.plan)
          /\ stagsBucket' = r.stags
          /\ anchorsBucket' = r.anchors
          /\ versionsBucket' = r.versions
          /\ inflight' = Some([f EXCEPT !.done = @ + 1])
    /\ UNCHANGED <<now, nEvents, nFailures, lastEv, last, producers, reader, seen>>
    /\ UNCHANGED <<batchVars, apiVars, poolVars>>

\* processEvent returns
Finish ==
    /\ inflight # Nil
    /\ LET f == inflight[1]
       IN f.done + 1 = Len(f.plan)
    /\ inflight' = Nil
    /\ nEvents' = nEvents + 1
    /\ lastEv' = Some(inflight[1].event)
    /\ UNCHANGED <<stagsBucket, anchorsBucket, versionsBucket, now, nFailures,
                   last, producers, reader, seen>>
    /\ UNCHANGED <<batchVars, apiVars, poolVars>>

\* GetAnchor's first transaction: db.View reads the anchor record
ReadAnchor ==
    /\ reader = Nil
    /\ seen = Nil
    /\ \E k \in DOMAIN anchorsBucket :
         LET a == anchorsBucket[k]
             pre == IF inflight = Nil
                    THEN {Snapshot(anchorsBucket, versionsBucket, a.StagID, a.ID)}
                    ELSE LET f == inflight[1]
                             post == f.plan[Len(f.plan)]
                         IN {Snapshot(f.anchors, f.versions, a.StagID, a.ID),
                             Snapshot(post.anchors, post.versions, a.StagID, a.ID)}
         IN reader' = Some([stagID |-> a.StagID, anchorID |-> a.ID,
                            anchor |-> a, whole |-> pre])
    /\ UNCHANGED <<stagsBucket, anchorsBucket, versionsBucket, now, nEvents,
                   nFailures, lastEv, last, producers, inflight, seen>>
    /\ UNCHANGED <<batchVars, apiVars, poolVars>>

\* GetAnchor's second transaction: GetAnchorVersions, then the call returns
ReadVersions ==
    /\ reader # Nil
    /\ LET r == reader[1]
       IN seen' = Some([got |-> [anchor |-> r.anchor,
                                 Versions |-> GetAnchorVersions(versionsBucket,
                                                  r.stagID, r.anchorID)],
                        whole |-> r.whole,
                        during |-> inflight # Nil])
    /\ reader' = Nil
    /\ UNCHANGED <<stagsBucket, anchorsBucket, versionsBucket, now, nEvents,
                   nFailures, lastEv, last, producers, inflight>>
    /\ UNCHANGED <<batchVars, apiVars, poolVars>>

NextRead == Tick \/ (\E event \in Events : Begin(event)) \/ Commit \/ Finish
                \/ ReadAnchor \/ ReadVersions

SpecRead == Init /\ [][NextRead]_vars


(* ------------------------ ingest, worker, Stop ------------------------ *)

engineVars == <<stagsBucket, anchorsBucket, versionsBucket, now, nEvents,
                nFailures, lastEv, last, producers>>

\* An event in the channel is named by the client that posted it and its
\* position in that client's batch.
EventOf(item) == request[item[1]][item[2]]

\* a channel that hands out the newest event first
EnqueueFront(q, item) == <<item>> \o q

\* a send that loses the event
EnqueueLost(q, item) == q

\* bp.queue <- event
Enqueue(q, item) == Append(q, item)

\* shouldFlush := len(bp.batch) >= bp.batchSize
ShouldFlush(buf) == Len(buf) >= BatchSize

\* a flush that empties the buffer and hands nothing over
ToProcessNothing(buf) == <<>>

\* copy(toProcess, bp.batch)
ToProcess(buf) == buf

\* an error returned by processEvent
Failed(outcome) == outcome \in Errors \cup {"invalid"}

\* a loop that ends at the first failed event
AfterEventStops(rest, failed) == IF failed THEN <<>> ELSE rest

\* the events the loop of processBatch goes on with after one event
AfterEvent(rest, failed) == rest

\* errors++ or processed++
CountEvent(c, failed) ==
    IF failed THEN [c EXCEPT !.errors = @ + 1] ELSE [c EXCEPT !.processed = @ + 1]

\* a Stop that does not wait for the worker
WorkerNotAwaited == TRUE

\* bp.wg.Wait() returns
WorkerDone == worker = "exited"

\* HandleIngest decodes the batch of a request
Receive(p) ==
    /\ handler[p].pc = "idle"
    /\ request' = [request EXCEPT ![p] = BatchOf[p]]
    /\ handler' = [handler EXCEPT ![p].pc = "adding"]
    /\ UNCHANGED <<engineVars, readVars, apiVars, poolVars, queue, closed, batch, cancelled,
                   worker, toProcess, counts, stop, enqueued, signalledAt, passed,
                   applied, dropped>>
    /\ UNCHANGED finalFlush

\* Add: the select takes the send, which needs room in the channel
AddEnqueue(p) ==
    /\ handler[p].pc = "adding"
    /\ handler[p].sent < Len(request[p])
    /\ ~closed
    /\ Len(queue) < QueueCap
    /\ queue' = Enqueue(queue, <<p, handler[p].sent + 1>>)
    /\ enqueued' = Append(enqueued, <<p, handler[p].sent + 1>>)
    /\ handler' = [handler EXCEPT ![p].sent = @ + 1]
    /\ UNCHANGED <<engineVars, readVars, apiVars, poolVars, closed, batch, cancelled, worker,
                   toProcess, counts, stop, request, signalledAt, passed, applied,
                   dropped>>
    /\ UNCHANGED finalFlush

\* Add: the select takes <-bp.ctx.Done() and the event is dropped
AddDrop(p) ==
    /\ handler[p].pc = "adding"
    /\ handler[p].sent < Len(request[p])
    /\ cancelled
    /\ dropped' = dropped \cup {<<p, handler[p].sent + 1>>}
    /\ handler' = [handler EXCEPT ![p].sent = @ + 1]
    /\ UNCHANGED <<engineVars, readVars, apiVars, poolVars, queue, closed, batch, cancelled,
                   worker, toProcess, counts, stop, request, enqueued, signalledAt,
                   passed, applied>>
    /\ UNCHANGED finalFlush

\* Add: the select takes the send on the channel Stop has closed, and panics
AddPanic(p) ==
    /\ handler[p].pc = "adding"
    /\ handler[p].sent < Len(request[p])
    /\ closed
    /\ handler' = [handler EXCEPT ![p].pc = "panicked"]
    /\ UNCHANGED <<engineVars, readVars, apiVars, poolVars, queue, closed, batch, cancelled,
                   worker, toProcess, counts, stop, request, enqueued, signalledAt,
                   passed, applied, dropped>>
    /\ UNCHANGED finalFlush

\* HandleIngest writes its response: "processed" and "errors"
Respond(p) ==
    /\ handler[p].pc = "adding"
    /\ handler[p].sent = Len(request[p])
    /\ handler' = [handler EXCEPT ![p].pc = "responded", ![p].errors = ResponseErrors]
    /\ UNCHANGED <<engineVars, readVars, apiVars, poolVars, queue, closed, batch, cancelled,
                   worker, toProcess, counts, stop, request, enqueued, signalledAt,
                   passed, applied, dropped>>
    /\ UNCHANGED finalFlush

\* a flush that starts the processor in a goroutine of its own and returns
FlushDetached(buf, running, idle) ==
    IF buf = <<>>
    THEN /\ batch' = buf
         /\ worker' = idle
         /\ UNCHANGED <<toProcess, passed, counts>>
    ELSE /\ batch' = <<>>
         /\ toProcess' = ToProcess(buf)
         /\ passed' = passed \o ToProcess(buf)
         /\ counts' = [NoCounts EXCEPT !.size = Len(ToProcess(buf))]
         /\ worker' = idle

\* a flush that hands the buffer over and does not empty it
FlushKeepsBuffer(buf, running, idle) ==
    IF buf = <<>>
    THEN /\ batch' = buf
         /\ worker' = idle
         /\ UNCHANGED <<toProcess, passed, counts>>
    ELSE /\ batch' = buf
         /\ toProcess' = ToProcess(buf)
         /\ passed' = passed \o ToProcess(buf)
         /\ counts' = [NoCounts EXCEPT !.size = Len(ToProcess(buf))]
         /\ worker' = running

\* flush(): nothing on an empty buffer; otherwise the buffer is copied and
\* emptied and the processor is called with the copy
Flush(buf, running, idle) ==
    IF buf = <<>>
    THEN /\ batch' = buf
         /\ worker' = idle
         /\ UNCHANGED <<toProcess, passed, counts>>
    ELSE /\ batch' = <<>>
         /\ toProcess' = ToProcess(buf)
         /\ passed' = passed \o ToProcess(buf)
         /\ counts' = [NoCounts EXCEPT !.size = Len(ToProcess(buf))]
         /\ worker' = running

\* run(): case event := <-bp.queue
WorkerReceive ==
    /\ worker = "select"
    /\ queue # <<>>
    /\ queue' = Tail(queue)
    /\ LET buf == Append(batch, Head(queue))
       IN IF ShouldFlush(buf)
          THEN Flush(buf, "flush", "select")
          ELSE /\ batch' = buf
               /\ UNCHANGED <<worker, toProcess, passed, counts>>
    /\ UNCHANGED <<engineVars, readVars, apiVars, poolVars, closed, cancelled, stop, request,
                   handler, enqueued, signalledAt, applied, dropped>>
    /\ UNCHANGED finalFlush

\* run(): case <-ticker.C, a tick of the flush timer being there to take
OnTick ==
    /\ worker = "select"
    /\ Flush(batch, "flush", "select")
    /\ UNCHANGED <<engineVars, readVars, apiVars, poolVars, queue, closed, cancelled, stop, request,
                   handler, enqueued, signalledAt, applied, dropped>>
    /\ UNCHANGED finalFlush

\* run(): case <-bp.ctx.Done(): the final flush, then return
OnDone ==
    /\ worker = "select"
    /\ cancelled
    /\ Flush(batch, "final", "exited")
    /\ UNCHANGED <<engineVars, readVars, apiVars, poolVars, queue, closed, cancelled, stop,
                   request, handler, enqueued, signalledAt, applied, dropped>>
    /\ finalFlush' = Some(ToProcess(batch))

\* processBatch: one iteration of the loop over the events; fails are the
\* store writes of processEvent that may return an error in it
Iterate(fails) ==
    /\ worker \in {"flush", "final"}
    /\ toProcess # <<>>
    /\ \E fail \in fails \cup {"none"} :
           Process(EventOf(Head(toProcess)), fail, nEvents + 1)
    /\ LET failed == Failed(last'.outcome)
       IN /\ toProcess' = AfterEvent(Tail(toProcess), failed)
          /\ counts' = CountEvent(counts, failed)
          /\ applied' = Append(applied, [item |-> Head(toProcess),
                                         outcome |-> last'.outcome])
    /\ UNCHANGED <<readVars, apiVars, poolVars, queue, closed, batch, cancelled, worker, stop,
                   request, handler, enqueued, signalledAt, passed, dropped,
                   finalFlush>>

\* an iteration over a store that may fail, and one over a store that works
Apply == Iterate(Writes)

ApplyClean == Iterate({})

\* processBatch returns, and flush() with it
Return ==
    /\ worker \in {"flush", "final"}
    /\ toProcess = <<>>
    /\ worker' = IF worker = "flush" THEN "select" ELSE "exited"
    /\ UNCHANGED <<engineVars, readVars, apiVars, poolVars, queue, closed, batch, cancelled,
                   toProcess, counts, stop, request, handler, enqueued,
                   signalledAt, passed, applied, dropped>>
    /\ UNCHANGED finalFlush

\* Stop(): bp.cancel()
StopCancel ==
    /\ stop = "idle"
    /\ cancelled' = TRUE
    /\ signalledAt' = Some(Len(enqueued))
    /\ stop' = "wait"
    /\ UNCHANGED <<engineVars, readVars, apiVars, poolVars, queue, closed, batch, worker,
                   toProcess, counts, request, handler, enqueued, passed, applied,
                   dropped>>
    /\ UNCHANGED finalFlush

\* Stop(): bp.wg.Wait() returns, close(bp.queue), return
StopClose ==
    /\ stop = "wait"
    /\ WorkerDone
    /\ closed' = TRUE
    /\ stop' = "returned"
    /\ UNCHANGED <<engineVars, readVars, apiVars, poolVars, queue, batch, cancelled, worker,
                   toProcess, counts, request, handler, enqueued, signalledAt,
                   passed, applied, dropped>>
    /\ UNCHANGED finalFlush

HandleIngest ==
    \E p \in Clients : Receive(p) \/ AddEnqueue(p) \/ AddDrop(p) \/ AddPanic(p)
                          \/ Respond(p)

NextBatch == HandleIngest \/ WorkerReceive \/ OnTick \/ OnDone
                 \/ Apply \/ Return \/ StopCancel \/ StopClose

SpecBatch == Init /\ [][NextBatch]_vars

\* The service as main.go runs it, where nothing calls Stop.  The worker and
\* the HTTP handlers keep running, Go's select takes every case that stays
\* ready, and the flush timer keeps ticking.
IngestRunning == \E p \in Clients : Receive(p) \/ AddEnqueue(p) \/ Respond(p)

NextRunning == IngestRunning \/ WorkerReceive \/ OnTick \/ ApplyClean \/ Return

Fairness ==
    /\ WF_vars(WorkerReceive \/ ApplyClean \/ Return)
    /\ WF_vars(OnTick)
    /\ \A p \in Clients : WF_vars(AddEnqueue(p))

SpecRunning == Init /\ [][NextRunning]_vars /\ Fairness

\* HandleIngest after its last Add: stats, err := s.store.GetSystemStats(), a
\* read transaction; the handler keeps what it read
GetSystemStats(p) ==
    /\ handler[p].pc = "adding"
    /\ handler[p].sent = Len(request[p])
    /\ handler' = [handler EXCEPT
                      ![p] = [pc |-> "counting", sent |-> handler[p].sent,
                              errors |-> handler[p].errors, stats |-> systemStats]]
    /\ UNCHANGED <<engineVars, readVars, apiVars, poolVars, queue, closed, batch,
                   cancelled, worker, toProcess, counts, stop, request, enqueued,
                   signalledAt, passed, applied, dropped, finalFlush>>

\* stats.EventCount += processed; s.store.UpdateSystemStats(stats), a write
\* transaction of its own; then the response
UpdateSystemStats(p) ==
    /\ handler[p].pc = "counting"
    /\ systemStats' = [handler[p].stats EXCEPT !.EventCount = @ + handler[p].sent]
    /\ handler' = [handler EXCEPT
                      ![p] = [pc |-> "responded", sent |-> handler[p].sent,
                              errors |-> ResponseErrors]]
    /\ UNCHANGED <<engineVars, readVars, owner, call, nCalls, poolVars, queue,
                   closed, batch, cancelled, worker, toProcess, counts, stop,
                   request, enqueued, signalledAt, passed, applied, dropped,
                   finalFlush>>

\* the running service with the SystemStats update of every ingest request
IngestCounting ==
    \E p \in Clients : Receive(p) \/ AddEnqueue(p) \/ GetSystemStats(p)
                          \/ UpdateSystemStats(p)

NextStats == IngestCounting \/ WorkerReceive \/ OnTick \/ ApplyClean \/ Return

SpecStats == Init /\ [][NextStats]_vars


(* ------------------------------- claims ------------------------------- *)

\* the stored anchor records
StoredAnchors == {anchorsBucket[k] : k \in DOMAIN anchorsBucket}

\* the version chain of a stored anchor, read in key order
Chain(a) == GetAnchorVersions(versionsBucket, a.StagID, a.ID)

RECURSIVE SumLen(_)
SumLen(as) ==
    IF as = {} THEN 0
    ELSE LET a == CHOOSE x \in as : TRUE
         IN Len(Chain(a)) + SumLen(as \ {a})

\* a counter of a stag's statistics, 0 while the stag is not stored
StatOf(stags, g, field) ==
    IF g \in DOMAIN stags THEN stags[g].Stats[field] ELSE 0

\* C1: after any sequence of ingested events, no two adjacent versions of an
\* anchor's chain, read in key order, have equal hash.
C1_NoAdjacentEqualHash ==
    \A a \in StoredAnchors :
        \A i \in 1..(Len(Chain(a)) - 1) : Chain(a)[i].Hash # Chain(a)[i + 1].Hash

\* C2: after any sequence of ingested events, the current_hash of every anchor
\* that has a version equals the hash of the last version of its chain.
C2_HeadIsLastVersion ==
    \A a \in StoredAnchors :
        Len(Chain(a)) > 0 => a.CurrentHash = Chain(a)[Len(Chain(a))].Hash

\* C3: the event that creates an anchor gives it exactly one version, of
\* change_type create.
C3_FirstEventCreatesVersion ==
    (last.newAnchor /\ last.outcome \notin Errors) =>
        LET chain == GetAnchorVersions(versionsBucket, last.stagID, last.anchorID)
        IN Len(chain) = 1 /\ chain[1].ChangeType = "create"

\* C4: the same event ingested twice in a row, its content being new to the
\* anchor (no anchor yet, or an anchor with another hash and another signature),
\* produces exactly one version: the first ingestion appends one, the second none.
C4_TwiceInARowOneVersion ==
    (/\ last.repeat
     /\ last.prevOutcome \notin Errors \cup {"invalid"}
     /\ last.outcome \notin Errors \cup {"invalid"}
     /\ last.prevNewAnchor \/ (~last.prevHeadEqual /\ ~last.prevSigEqual)) =>
        /\ last.before = last.prevBefore + 1
        /\ Len(GetAnchorVersions(versionsBucket, last.stagID, last.anchorID))
               = last.before

\* C5: every anchor with a version has exactly one version of change_type
\* create, the first of its chain; all later versions are update.
C5_CreateIsFirstOnly ==
    \A a \in StoredAnchors :
        \A i \in 1..Len(Chain(a)) :
            Chain(a)[i].ChangeType = IF i = 1 THEN "create" ELSE "update"

\* C6: the chain is append-only and ordered by insertion: a step leaves the
\* chain of an anchor as it was or appends one version at its end; it never
\* replaces or removes a version.
C6_AppendOnly ==
    [][\A k \in DOMAIN anchorsBucket' :
         LET a == anchorsBucket'[k]
             old == GetAnchorVersions(versionsBucket, a.StagID, a.ID)
             new == GetAnchorVersions(versionsBucket', a.StagID, a.ID)
         IN \/ new = old
            \/ Len(new) = Len(old) + 1 /\ SubSeq(new, 1, Len(old)) = old]_vars

\* C7: for every stag, stats.version_count equals the number of version
\* records stored across its anchors.
C7_VersionCountIsStored ==
    \A g \in DOMAIN stagsBucket :
        stagsBucket[g].Stats.VersionCount
            = SumLen({a \in StoredAnchors : a.StagID = g})

\* C8: in every reachable state event_count equals version_count for every
\* stag; an event skipped by dedup or rejected as invalid changes neither, and
\* an event that appends a version increments both by one.
C8_CountsAgree ==
    \A g \in DOMAIN stagsBucket :
        stagsBucket[g].Stats.EventCount = stagsBucket[g].Stats.VersionCount

C8_CountSteps ==
    nEvents' = nEvents + 1 =>
        /\ C8_CountsAgree'
        /\ last'.outcome \in {"skip_hash", "skip_geom", "invalid"} =>
              \A g \in DOMAIN stagsBucket' :
                  /\ StatOf(stagsBucket', g, "EventCount")
                         = StatOf(stagsBucket, g, "EventCount")
                  /\ StatOf(stagsBucket', g, "VersionCount")
                         = StatOf(stagsBucket, g, "VersionCount")
        /\ last'.outcome = "appended" =>
              \A g \in DOMAIN stagsBucket' :
                  LET by == IF g = last'.stagID THEN 1 ELSE 0
                  IN /\ StatOf(stagsBucket', g, "EventCount")
                            = StatOf(stagsBucket, g, "EventCount") + by
                     /\ StatOf(stagsBucket', g, "VersionCount")
                            = StatOf(stagsBucket, g, "VersionCount") + by

C8_EventCountIsVersionCount == C8_CountsAgree /\ [][C8_CountSteps]_vars

\* C8 witness: a stag has counted a version, and the event after the one that
\* appended it was rejected for its missing payload.
C8_Witness ==
    /\ last.outcome = "invalid"
    /\ last.prevOutcome = "appended"
    /\ \E g \in DOMAIN stagsBucket : stagsBucket[g].Stats.EventCount >= 1

\* C9: for every stag, session_count, client_count and device_count are the
\* numbers of distinct session, client and device ids among the events that
\* produced versions in it.
C9_DistinctCounts ==
    \A g \in DOMAIN stagsBucket :
        LET ps == {p \in producers : p[1] = g}
        IN /\ stagsBucket[g].Stats.SessionCount = Cardinality({p[2] : p \in ps})
           /\ stagsBucket[g].Stats.ClientCount = Cardinality({p[3] : p \in ps})
           /\ stagsBucket[g].Stats.DeviceCount = Cardinality({p[4] : p \in ps})

\* C10: a mesh event on a stored anchor whose stored geometric signature is
\* the signature of the event's mesh appends no version, whatever its content
\* hash, and leaves the anchor record (current_hash, signature) as it was.
C10_SignatureFilter ==
    [][(/\ nEvents' = nEvents + 1
        /\ lastEv'[1].EventType = StrMesh
        /\ lastEv'[1].MeshData # Nil
        /\ LET e == lastEv'[1]
               k == AnchorKey(StagIDFor(e), AnchorIDFor(e))
           IN /\ k \in DOMAIN anchorsBucket
              /\ anchorsBucket[k].Metadata.geom_signature
                     = Some(CalculateGeometrySignature(e.MeshData[1])))
       => /\ versionsBucket' = versionsBucket
          /\ anchorsBucket' = anchorsBucket]_vars

\* C10 witness: a mesh with the stored geometry arrived under another event id
\* and another content hash, was skipped by its signature, and the anchor keeps
\* its one version.
C10_Witness ==
    /\ last.outcome = "skip_geom"
    /\ LET chain == GetAnchorVersions(versionsBucket, last.stagID, last.anchorID)
       IN /\ Len(chain) = 1
          /\ chain[1].EventID # lastEv[1].EventID
          /\ chain[1].Hash # CalculateEventHash(lastEv[1])
          /\ chain[1].MeshData[1].Vertices = lastEv[1].MeshData[1].Vertices

\* C11: a reader running concurrently with the engine never observes an
\* intermediate state of an event: what get_anchor returns is the anchor with
\* its chain as stored before or after each event applied meanwhile, never
\* with a part of an event's changes.
C11_ReaderSeesWholeEvents ==
    seen # Nil => seen[1].got \in seen[1].whole

\* C12: when a store write fails while the engine applies an event, none of
\* the event's changes is visible afterwards: no version was added, no anchor
\* record changed and the statistics of every stag are as they were.
C12_FailedEventLeavesNothing ==
    [][(nEvents' = nEvents + 1 /\ last'.outcome \in Errors) =>
          /\ versionsBucket' = versionsBucket
          /\ anchorsBucket' = anchorsBucket
          /\ \A g \in DOMAIN stagsBucket' :
                 \A field \in DOMAIN ZeroStats :
                     StatOf(stagsBucket', g, field) = StatOf(stagsBucket, g, field)]_vars

\* the batch of the processBatch call that runs or ran last, and the events
\* with their results that the call has gone through
CurrentBatch == SubSeq(passed, Len(passed) - counts.size + 1, Len(passed))
CurrentDone ==
    SubSeq(applied, Len(applied) - (counts.processed + counts.errors) + 1,
           Len(applied))

\* C13: in processBatch an event whose processing fails is counted as an
\* error and every later event of the batch is still processed, in order: the
\* events gone through, followed by those still to do, are the whole batch,
\* and errors counts exactly the failed ones.
C13_FailureDoesNotStopBatch ==
    /\ [i \in 1..Len(CurrentDone) |-> CurrentDone[i].item] \o toProcess
           = CurrentBatch
    /\ counts.errors
           = Cardinality({i \in 1..Len(CurrentDone) : Failed(CurrentDone[i].outcome)})
    /\ counts.processed + counts.errors = Len(CurrentDone)

\* C13 witness: a call has finished a batch in which an event failed and a
\* later event committed a version.
C13_Witness ==
    /\ toProcess = <<>>
    /\ \E i, j \in 1..Len(CurrentDone) :
           /\ i < j
           /\ Failed(CurrentDone[i].outcome)
           /\ CurrentDone[j].outcome = "appended"

\* the events of client p that processEvent failed on
FailedOf(p) ==
    {i \in 1..Len(applied) : applied[i].item[1] = p /\ Failed(applied[i].outcome)}

\* every event of the batch of client p has been through processEvent
AllApplied(p) ==
    \A n \in 1..Len(request[p]) : \E i \in 1..Len(applied) : applied[i].item = <<p, n>>

\* C14: for an ingest batch of n events of which k fail in the engine, the
\* batch result reports processed = n and errors = k.
C14_ResponseCounts ==
    \A p \in Clients :
        (handler[p].pc = "responded" /\ AllApplied(p)) =>
            /\ handler[p].sent = Len(request[p])
            /\ handler[p].errors = Cardinality(FailedOf(p))

\* C15: when Stop has returned, every event that Add had placed in the queue
\* before shutdown was signalled has been passed to the processor callback.
C15_StopDrainsQueue ==
    stop = "returned" =>
        \A i \in 1..signalledAt[1] : enqueued[i] \in Items(passed)

\* C16: once shutdown has been signalled, a call of Add never places its event
\* in the queue and returns normally.
C16_AddAfterStopDrops ==
    [][cancelled =>
          /\ enqueued' = enqueued
          /\ \A p \in Clients : handler'[p].pc = "panicked" => handler[p].pc = "panicked"]_vars

\* C17: Stop returns only after the final flush: when Stop has returned, the
\* processor callback of the final flush has gone through all its events and
\* returned, the worker has exited and the buffer is empty.
C17_StopWaitsForFinalFlush ==
    stop = "returned" =>
        /\ worker = "exited"
        /\ finalFlush # Nil
        /\ toProcess = <<>>
        /\ Items(finalFlush[1]) \subseteq {applied[i].item : i \in 1..Len(applied)}
        /\ batch = <<>>

\* C17 witness: Stop has returned after a final flush that handed events over.
C17_Witness ==
    /\ stop = "returned"
    /\ finalFlush # Nil
    /\ finalFlush[1] # <<>>

\* the events client p posts, as channel items
ItemsOf(p) == {<<p, n>> : n \in 1..Len(BatchOf[p])}

AppliedItems == {applied[i].item : i \in 1..Len(applied)}

\* seq is the beginning of whole
IsPrefix(seq, whole) ==
    /\ Len(seq) <= Len(whole)
    /\ SubSeq(whole, 1, Len(seq)) = seq

\* the positions of the events of client p in seq grow with their positions in
\* the batch of p
InBatchOrder(seq, p) ==
    \A i, j \in 1..Len(seq) :
        (i < j /\ seq[i][1] = p /\ seq[j][1] = p) => seq[i][2] < seq[j][2]

\* C18: while shutdown is not signalled, every event accepted by Add is
\* eventually passed to the processor and applied to the store, also when fewer
\* than batch_size events arrive, and the stag of its session is then stored.
C18_AcceptedIsApplied ==
    \A p \in Clients : \A item \in ItemsOf(p) :
        (item \in Items(enqueued)) ~>
            (/\ item \in Items(passed)
             /\ item \in AppliedItems
             /\ StagIDFor(EventOf(item)) \in DOMAIN stagsBucket)

\* C18 witness: a batch of fewer than batch_size events, which only the timer
\* flushes, has been applied to the store.
C18_Witness ==
    /\ counts.size > 0
    /\ counts.size < BatchSize
    /\ toProcess = <<>>
    /\ Items(CurrentBatch) \subseteq AppliedItems
    /\ \A item \in Items(CurrentBatch) :
           StagIDFor(EventOf(item)) \in DOMAIN stagsBucket

\* C19: the events a producer added are passed to the processor in the order
\* it added them, within and across batches, and the events passed are applied
\* to the store one after the other in that order.
C19_OrderKept ==
    /\ IsPrefix(passed, enqueued)
    /\ IsPrefix([i \in 1..Len(applied) |-> applied[i].item], passed)
    /\ \A p \in Clients : InBatchOrder(enqueued, p) /\ InBatchOrder(passed, p)

\* C19 witness: the events of both clients went through the processor in more
\* than one batch.
C19_Witness ==
    /\ Len(passed) > BatchSize
    /\ Len(applied) = Len(passed)
    /\ \A p \in Clients : \E i, j \in 1..Len(applied) :
           i < j /\ applied[i].item[1] = p /\ applied[j].item[1] = p

\* a call of Add by client p that has not returned
InAdd(p) == handler[p].pc = "adding" /\ handler[p].sent < Len(request[p])

\* C20: while shutdown is not signalled Add blocks on a full queue: it never
\* drops an event, it enqueues exactly when the queue has room, and with a
\* fairly scheduled worker every call returns with its event enqueued.
C20_AddBlocksOnFullQueue ==
    /\ [](dropped = {} /\ Len(queue) <= QueueCap)
    /\ [][\A p \in Clients :
            handler'[p].sent = handler[p].sent + 1 =>
                /\ Len(queue) < QueueCap
                /\ queue' = Append(queue, <<p, handler'[p].sent>>)]_vars
    /\ \A p \in Clients : \A n \in 1..Len(BatchOf[p]) :
            (InAdd(p) /\ handler[p].sent = n - 1) ~>
                (handler[p].sent >= n /\ <<p, n>> \in Items(enqueued))

\* C20 witness: a call of Add is blocked on the full queue.
C20_Witness ==
    /\ Len(queue) = QueueCap
    /\ \E p \in Clients : InAdd(p)

\* the step is a call of the operation op
IsCall(op) == nCalls' = nCalls + 1 /\ call'.op = op

\* the versions that were added for anchor a of stag g and are stored, in key
\* order
StoredFor(versions, owners, g, a) ==
    LET ks == SortKeys({k \in DOMAIN versions :
                            k \in DOMAIN owners /\ owners[k] = <<g, a>>})
    IN [i \in 1..Len(ks) |-> versions[ks[i]]]

\* C21: get_anchor_history(g, a, offset, limit) with offset >= 0 and limit > 0
\* returns total = the number of versions stored for (g, a) and versions = the
\* elements offset+1 .. min(offset+limit, total) of the chain in key order;
\* with offset >= total the slice is empty, total exact, and it is no error.
C21_HistoryPage ==
    [][IsCall("get_anchor_history") =>
          LET h == call'.body.history
              stored == StoredFor(versionsBucket, owner, call'.g, call'.a)
          IN /\ call'.status = 200
             /\ h.Total = Len(stored)
             /\ h.Versions = SubSeq(stored, h.Offset + 1,
                                    Min2(h.Offset + h.Limit, Len(stored)))]_vars

\* C22: a history request with limit = 0 is rejected with InvalidRequest
\* (status 400), one with limit > 1000 is served with limit 1000, and one
\* without limit is served with limit 50.
C22_LimitRules ==
    [][IsCall("get_anchor_history") =>
          LET q == call'.body.query.limit
          IN /\ q = Some(0) => call'.status = 400
             /\ (q # Nil /\ q[1] > 1000) =>
                    call'.status = 200 /\ call'.body.history.Limit = 1000
             /\ q = Nil =>
                    call'.status = 200 /\ call'.body.history.Limit = 50]_vars

\* C23: every read operation addressed to an absent entity returns NotFound
\* (status 404): get_graph, get_graph_stats and list_anchors for an unknown
\* graph, get_anchor and get_anchor_history for an unknown graph or anchor.
C23_AbsentIsNotFound ==
    [][/\ (\/ IsCall("get_graph") \/ IsCall("get_graph_stats")
           \/ IsCall("list_anchors"))
          => (call'.g \notin DOMAIN stagsBucket => call'.status = 404)
       /\ (IsCall("get_anchor") \/ IsCall("get_anchor_history"))
          => ((\/ call'.g \notin DOMAIN stagsBucket
               \/ AnchorKey(call'.g, call'.a) \notin DOMAIN anchorsBucket)
              => call'.status = 404)]_vars

\* the anchor records of stag g
AnchorsOf(anchors, g) == {anchors[k] : k \in {x \in DOMAIN anchors : anchors[x].StagID = g}}

\* C24: after DeleteStag(g), list_graphs does not contain g, get_anchor(g, a)
\* fails for every anchor a that g had, and no version record remains under
\* any key prefix g:a:.
C24_DeleteStagCascades ==
    [][IsCall("DeleteStag") =>
          LET g == call'.g
          IN /\ g \notin Items(ListStags(stagsBucket'))
             /\ \A anchor \in AnchorsOf(anchorsBucket, g) :
                    /\ ~GetAnchor(anchorsBucket', versionsBucket', g, anchor.ID).ok
                    /\ ScanKeys(versionsBucket', VersionPrefix(g, anchor.ID)) = <<>>]_vars

\* C25: DeleteAnchor(g, a) removes the anchor record (g, a) and all of its
\* versions, and leaves the graph record, every other anchor and every
\* version of every other anchor unchanged.
C25_DeleteAnchorFrame ==
    [][IsCall("DeleteAnchor") =>
          LET g == call'.g
              a == call'.a
          IN /\ AnchorKey(g, a) \notin DOMAIN anchorsBucket'
             /\ \A k \in DOMAIN versionsBucket' : owner[k] # <<g, a>>
             /\ stagsBucket' = stagsBucket
             /\ \A k \in (DOMAIN anchorsBucket) \ {AnchorKey(g, a)} :
                    k \in DOMAIN anchorsBucket' /\ anchorsBucket'[k] = anchorsBucket[k]
             /\ \A k \in DOMAIN versionsBucket :
                    owner[k] # <<g, a>> =>
                        k \in DOMAIN versionsBucket'
                            /\ versionsBucket'[k] = versionsBucket[k]]_vars

\* C30: after the clean operation on a store holding any graphs, list_graphs
\* is empty, no anchor or version record remains, and the SystemStats
\* counters are zero.
C30_CleanLeavesNothing ==
    [][IsCall("clean") =>
          /\ ListStags(stagsBucket') = <<>>
          /\ DOMAIN anchorsBucket' = {}
          /\ DOMAIN versionsBucket' = {}
          /\ \A counter \in DOMAIN systemStats' : systemStats'[counter] = 0]_vars

\* the three buckets are as they were before the step
StoreUnchanged ==
    /\ stagsBucket' = stagsBucket
    /\ anchorsBucket' = anchorsBucket
    /\ versionsBucket' = versionsBucket

\* C26: CreateStag and CreateAnchor on a key that is present fail with
\* "already exists" and leave the store as it was; UpdateStag, UpdateStagStats
\* and UpdateAnchor on a key that is absent fail with "does not exist" or
\* "not found" and create no record.
C26_CreateAndUpdateGuards ==
    [][/\ (IsCall("CreateStag") /\ call'.g \in DOMAIN stagsBucket)
          => (call'.body = "already exists" /\ StoreUnchanged)
       /\ (IsCall("CreateAnchor")
              /\ AnchorKey(call'.g, call'.a) \in DOMAIN anchorsBucket)
          => (call'.body = "already exists" /\ StoreUnchanged)
       /\ ((IsCall("UpdateStag") \/ IsCall("UpdateStagStats"))
              /\ call'.g \notin DOMAIN stagsBucket)
          => (call'.body \in {"does not exist", "not found"} /\ StoreUnchanged)
       /\ (IsCall("UpdateAnchor")
              /\ AnchorKey(call'.g, call'.a) \notin DOMAIN anchorsBucket)
          => (call'.body = "does not exist" /\ StoreUnchanged)]_vars

\* CreateAnchor has been refused for an anchor that is stored with another
\* content hash
C26_Witness ==
    /\ call.op = "CreateAnchor"
    /\ call.body = "already exists"
    /\ AnchorKey(call.g, call.a) \in DOMAIN anchorsBucket
    /\ \E anchor \in AnchorInputs :
           /\ anchor.StagID = call.g /\ anchor.ID = call.a
           /\ anchor # anchorsBucket[AnchorKey(call.g, call.a)]

\* the decimal digits of the frame numbers of the typed events
Decimal == (1 :> <<49>>) @@ (12 :> <<49, 50>>)

\* <prefix><client_id> and <prefix><client_id>_<frame_number>
PerClient(prefix, e) == prefix \o e.ClientID
PerFrame(prefix, e) == prefix \o e.ClientID \o <<95>> \o Decimal[e.FrameNumber]

\* the payload field an event of a known type must carry
PayloadOf(e) ==
    CASE e.EventType = StrMesh -> e.MeshData
      [] e.EventType = StrPose -> e.PoseData
      [] e.EventType = StrCamera -> e.CameraData
      [] e.EventType = StrDepth -> e.DepthData
      [] e.EventType = StrPointCloud -> e.PointCloudData
      [] e.EventType = StrLighting -> e.LightingData

\* the anchor id the specification gives for an event: mesh_, pose_, camera_,
\* depth_, pointcloud_, lighting_ and generic_ spelled out
ExpectedAnchorID(e) ==
    CASE e.EventType = StrMesh ->
             IF e.MeshData[1].AnchorID # <<>> THEN e.MeshData[1].AnchorID
             ELSE PerFrame(<<109, 101, 115, 104, 95>>, e)
      [] e.EventType = StrPose -> PerClient(<<112, 111, 115, 101, 95>>, e)
      [] e.EventType = StrCamera ->
             PerClient(<<99, 97, 109, 101, 114, 97, 95>>, e)
      [] e.EventType = StrDepth -> PerClient(<<100, 101, 112, 116, 104, 95>>, e)
      [] e.EventType = StrPointCloud ->
             PerFrame(<<112, 111, 105, 110, 116, 99, 108, 111, 117, 100, 95>>, e)
      [] e.EventType = StrLighting ->
             PerClient(<<108, 105, 103, 104, 116, 105, 110, 103, 95>>, e)
      [] OTHER -> PerFrame(<<103, 101, 110, 101, 114, 105, 99, 95>>, e)

\* C27: an event of one of the six known types without its payload fails as
\* an invalid event; every other event is applied without error to the anchor
\* whose id its type gives: the mesh anchor_id or mesh_<client>_<frame>,
\* pose_<client>, camera_<client>, depth_<client>, pointcloud_<client>_<frame>,
\* lighting_<client>, and generic_<client>_<frame> for any other type.
C27_AnchorIDByType ==
    (lastEv # Nil /\ lastEv[1] \in TypedEvents) =>
        LET e == lastEv[1]
        IN IF e.EventType \in KnownTypes /\ PayloadOf(e) = Nil
           THEN last.outcome = "invalid"
           ELSE /\ last.outcome \notin Errors
                /\ last.anchorID = ExpectedAnchorID(e)
                /\ AnchorKey(last.stagID, last.anchorID) \in DOMAIN anchorsBucket

\* a point cloud event of client C2 and frame 12 has been applied to the
\* anchor pointcloud_C2_12
C27_Witness ==
    /\ lastEv = Some(Typed(StrPointCloud, ClientC2, 12))
    /\ last.anchorID = <<112, 111, 105, 110, 116, 99, 108, 111, 117, 100, 95,
                         67, 50, 95, 49, 50>>
    /\ last.outcome \notin Errors

\* the graph id the specification gives for an event: "default" spelled out
ExpectedStagID(e) ==
    IF e.SessionID = <<>> THEN <<100, 101, 102, 97, 117, 108, 116>>
    ELSE e.SessionID

\* C28: every event is applied to the graph whose id is its session_id, or
\* "default" when the session_id is empty: after the event that graph exists
\* and holds the event's anchor, a graph that existed before keeps its record
\* but for its statistics, which do not restart from zero, and no other graph
\* changes.
C28_GraphBySession ==
    [][nEvents' = nEvents + 1 =>
          LET e == lastEv'[1]
              g == ExpectedStagID(e)
          IN /\ last'.stagID = g
             /\ last'.outcome \notin Errors
             /\ g \in DOMAIN stagsBucket'
             /\ AnchorKey(g, last'.anchorID) \in DOMAIN anchorsBucket'
             /\ anchorsBucket'[AnchorKey(g, last'.anchorID)].StagID = g
             /\ g \in DOMAIN stagsBucket =>
                    /\ [stagsBucket'[g] EXCEPT !.Stats = stagsBucket[g].Stats]
                           = stagsBucket[g]
                    /\ \A field \in DOMAIN ZeroStats :
                           stagsBucket'[g].Stats[field] >= stagsBucket[g].Stats[field]
             /\ \A h \in (DOMAIN stagsBucket) \ {g} :
                    h \in DOMAIN stagsBucket' /\ stagsBucket'[h] = stagsBucket[h]]_vars

\* two events without session id in a row have been applied to the graph
\* "default"
C28_Witness ==
    /\ lastEv # Nil /\ lastEv[1].SessionID = <<>>
    /\ last.repeat
    /\ last.stagID = <<100, 101, 102, 97, 117, 108, 116>>
    /\ <<100, 101, 102, 97, 117, 108, 116>> \in DOMAIN stagsBucket

\* C29: the content hash depends only on the event: every two computations
\* of the hash of one event, on whatever hasher of the pool and after whatever
\* events that hasher fingerprinted, give the same digest; and every hasher in
\* the pool holds the state of a new digest.
C29_HashDependsOnEventOnly ==
    /\ \A p \in sums, q \in sums : p.event = q.event => p.sum = q.sum
    /\ \A h \in pooled : hashers[h] = <<>>

\* one hasher went through the pool from one goroutine to the other and
\* fingerprinted two different events, one of which a second hasher
\* fingerprinted too, and a hasher is back in the pool
C29_Witness ==
    /\ pooled # {}
    /\ \E p \in sums, q \in sums, r \in sums :
           /\ p.hasher = q.hasher /\ p.by # q.by /\ p.event # q.event
           /\ r.event = q.event /\ r.hasher # q.hasher

\* an invocation of the processor is in progress
Invoked == worker \in {"flush", "final"}

\* C31: at most one invocation of the processor is in progress: a flush, by
\* size, by the timer or at shutdown, starts an invocation only when the one
\* before has returned and all its events are applied, and the store changes
\* only in a step of the invocation in progress, one event at a time.
C31_OneInvocationAtATime ==
    [][/\ passed' # passed =>
              ~Invoked /\ toProcess = <<>> /\ Len(applied) = Len(passed)
       /\ <<stagsBucket, anchorsBucket, versionsBucket>>'
              # <<stagsBucket, anchorsBucket, versionsBucket>> =>
              /\ Invoked /\ worker' = worker
              /\ Len(applied') = Len(applied) + 1
              /\ toProcess' = Tail(toProcess)]_vars

\* the invocation of the final flush is in progress, after an earlier
\* invocation that has applied its events to the store
C31_Witness ==
    /\ worker = "final" /\ toProcess # <<>>
    /\ finalFlush # Nil /\ Len(passed) > Len(finalFlush[1])
    /\ DOMAIN anchorsBucket # {}

\* C32: every event the worker has taken from the queue is in the buffer or
\* was handed to the processor, once and in the order taken; a flush empties
\* the buffer in the step that hands it over, and an empty buffer starts no
\* invocation.
C32_EveryEventInOneBatch ==
    /\ passed \o batch \o queue = enqueued
    /\ \A i \in 1..Len(passed), j \in 1..Len(passed) :
           passed[i] = passed[j] => i = j
    /\ Invoked => counts.size > 0
    /\ Len(toProcess) <= counts.size

\* two batches were handed over, and events wait in the buffer and the queue
C32_Witness ==
    /\ Len(passed) > BatchSize
    /\ batch # <<>>
    /\ queue # <<>>

\* C33: an event for a stored anchor whose content hash equals the anchor's
\* CurrentHash is a no-op on the store: the stags, anchors and versions
\* buckets (statistics, anchor record, version chain) are unchanged.
C33_EqualHashIsNoOp ==
    [][(/\ nEvents' = nEvents + 1
        /\ AnchorKey(last'.stagID, last'.anchorID) \in DOMAIN anchorsBucket
        /\ anchorsBucket[AnchorKey(last'.stagID, last'.anchorID)].CurrentHash
               = CalculateEventHash(lastEv'[1]))
       => /\ stagsBucket' = stagsBucket
          /\ anchorsBucket' = anchorsBucket
          /\ versionsBucket' = versionsBucket]_vars

\* an event was skipped on an anchor that has versions, for its hash equal to
\* the anchor's CurrentHash
C33_Witness ==
    /\ last.outcome = "skip_hash"
    /\ ~last.newAnchor
    /\ last.before > 0
    /\ anchorsBucket[AnchorKey(last.stagID, last.anchorID)].CurrentHash
           = CalculateEventHash(lastEv[1])

\* C34: the persisted SystemStats totals StagCount, AnchorCount and
\* VersionCount equal the numbers of stag, anchor and version records stored,
\* after every ingested event.
C34_TotalsMatchStore ==
    /\ systemStats.StagCount = Cardinality(DOMAIN stagsBucket)
    /\ systemStats.AnchorCount = Cardinality(DOMAIN anchorsBucket)
    /\ systemStats.VersionCount = Cardinality(DOMAIN versionsBucket)

\* two camera events that differ in the bytes of images of equal length and
\* in nothing else
SameButImage(e1, e2) ==
    /\ e1.EventType = StrCamera /\ e1.CameraData # Nil
    /\ e2.EventType = StrCamera /\ e2.CameraData # Nil
    /\ e1 # e2
    /\ Len(e1.CameraData[1].ImageData) = Len(e2.CameraData[1].ImageData)
    /\ [e1 EXCEPT !.CameraData = Some([e1.CameraData[1] EXCEPT
                                          !.ImageData = e2.CameraData[1].ImageData])]
           = e2

\* C35: two camera events of one client that agree in frame number, width,
\* height, format, image length, intrinsics and transforms and differ in the
\* image bytes have the same content hash, and the second one, applied right
\* after the first, appends no version to the anchor camera_<client_id>.
C35_ImageBytesNotHashed ==
    [][(nEvents' = nEvents + 1 /\ lastEv # Nil
            /\ SameButImage(lastEv[1], lastEv'[1]))
       => /\ CalculateEventHash(lastEv[1]) = CalculateEventHash(lastEv'[1])
          /\ last'.anchorID
                 = PerClient(<<99, 97, 109, 101, 114, 97, 95>>, lastEv'[1])
          /\ last'.outcome = "skip_hash"
          /\ versionsBucket' = versionsBucket]_vars

\* a camera event was skipped on an anchor whose newest version holds another
\* image of the same length
C35_Witness ==
    /\ last.outcome = "skip_hash"
    /\ last.before > 0
    /\ LET chain == GetAnchorVersions(versionsBucket, last.stagID, last.anchorID)
       IN /\ chain[Len(chain)].CameraData # Nil
          /\ chain[Len(chain)].CameraData # lastEv[1].CameraData
          /\ Len(chain[Len(chain)].CameraData[1].ImageData)
                 = Len(lastEv[1].CameraData[1].ImageData)

\* C36: records of different entities never alias, also for ids that contain
\* ':': list_anchors(g) returns the anchors stored for graph g and no other,
\* and the chain of (g, a) holds the versions that were added for (g, a) and
\* no other.
C36_NoAliasing ==
    \A g \in Graphs :
        /\ {r.anchor : r \in Items(ListAnchors(anchorsBucket, versionsBucket, g))}
               = AnchorsOf(anchorsBucket, g)
        /\ \A a \in AnchorIDs :
               GetAnchorVersions(versionsBucket, g, a)
                   = StoredFor(versionsBucket, owner, g, a)

\* C37: after any sequence of ingested events, DeleteStag and DeleteAnchor
\* calls, every stored version belongs to a stored anchor and every stored
\* anchor belongs to a stored stag.
C37_NoOrphans ==
    /\ \A k \in DOMAIN versionsBucket :
           AnchorKey(owner[k][1], owner[k][2]) \in DOMAIN anchorsBucket
    /\ \A anchor \in StoredAnchors : anchor.StagID \in DOMAIN stagsBucket

\* the number of events the ingest requests of the clients ps have queued
RECURSIVE Queued(_)
Queued(ps) ==
    IF ps = {} THEN 0
    ELSE LET p == CHOOSE x \in ps : TRUE
         IN handler[p].sent + Queued(ps \ {p})

\* C38: when the ingest requests handled concurrently have all returned, the
\* persisted SystemStats.EventCount is its value before, 0, plus the number of
\* events they queued.
C38_NoLostIncrement ==
    (\A p \in Clients : handler[p].pc = "responded") =>
        systemStats.EventCount = Queued(Clients)

\* the signature in the metadata of the anchor stored under key k, Nil when
\* there is no such anchor
SignatureAt(anchors, k) ==
    IF k \in DOMAIN anchors THEN anchors[k].Metadata.geom_signature ELSE Nil

C40_RejectedEventWritesNothing ==
    [][(/\ nEvents' = nEvents + 1
        /\ lastEv'[1].EventType \in KnownTypes
        /\ PayloadOf(lastEv'[1]) = Nil)
       => LET g == ExpectedStagID(lastEv'[1])
          IN /\ last'.outcome = "invalid"
             /\ anchorsBucket' = anchorsBucket
             /\ versionsBucket' = versionsBucket
             /\ \A h \in DOMAIN stagsBucket :
                    h \in DOMAIN stagsBucket' /\ stagsBucket'[h] = stagsBucket[h]
             /\ DOMAIN stagsBucket' = (DOMAIN stagsBucket) \cup {g}
             /\ stagsBucket'[g].ID = g
             /\ g \notin DOMAIN stagsBucket => stagsBucket'[g].Stats = ZeroStats]_vars

\* an event without payload was rejected on a graph that holds an anchor
C40_Witness ==
    /\ last.outcome = "invalid"
    /\ lastEv[1].EventType \in KnownTypes /\ PayloadOf(lastEv[1]) = Nil
    /\ last.stagID \in DOMAIN stagsBucket
    /\ AnchorsOf(anchorsBucket, last.stagID) # {}

=============================================================================
